---- MODULE Spec2Model ----
(***************************************************************************)
(* Model of the you.com -> OpenAI gateway (src/unnamed/part_002, lines     *)
(* 1107-1779): the SSE relay (collectYouTokensStream, streamOpenAIChunks)  *)
(* and the Deno.serve request handler.                                     *)
(*                                                                         *)
(* Text is a sequence of one-character strings, so that startsWith, slice, *)
(* indexOf and the buffering of partial lines are computed as the code     *)
(* computes them.                                                          *)
(***************************************************************************)
EXTENDS Integers, Sequences, FiniteSets, TLC

\* ------------------------------------------------------------------ bounds
\* Frames in one upstream SSE body.
MaxFrames == 2
\* Largest number of characters one reader.read() delivers.
MaxChunk == 14
\* Messages of a request whose history is built message by message.
MaxMessages == 4
\* Characters of a text content and parts of an array content that grow.
MaxText == 4
MaxParts == 3

\* ------------------------------------------------------- string primitives
NL == "\n"
CR == "\r"

\* String.prototype.startsWith
StartsWith(s, p) == Len(s) >= Len(p) /\ SubSeq(s, 1, Len(p)) = p

\* String.prototype.indexOf(c) for one character, 0-based; -1 when absent
IndexOf(s, c) ==
  IF \E i \in 1..Len(s) : s[i] = c
    THEN (CHOOSE i \in 1..Len(s) : s[i] = c /\ \A k \in 1..(i - 1) : s[k] # c) - 1
    ELSE -1

\* String.prototype.slice(a, b) with 0 <= a, b (0-based, end exclusive)
Slice2(s, a, b) == SubSeq(s, a + 1, IF b < Len(s) THEN b ELSE Len(s))

\* String.prototype.slice(a)
Slice(s, a) == SubSeq(s, a + 1, Len(s))

\* line.replace(/\r$/, "")
StripCR(s) ==
  IF Len(s) > 0 /\ s[Len(s)] = CR THEN SubSeq(s, 1, Len(s) - 1) ELSE s

\* -------------------------------------------------- literals of the parser
EventPrefix == <<"e","v","e","n","t",":">>
TokenEventPrefix == <<"e","v","e","n","t",":"," ","y","o","u","C","h","a","t","T","o","k","e","n">>
DataPrefix == <<"d","a","t","a",":">>
TokenKey == <<"y","o","u","C","h","a","t","T","o","k","e","n">>
DQ == "\""

Digits == {"0", "1", "2", "3", "4", "5", "6", "7", "8", "9"}

\* a JSON number without sign, fraction or exponent
IsNumberLiteral(v) ==
  /\ Len(v) >= 1
  /\ \A i \in 1..Len(v) : v[i] \in Digits
  /\ Len(v) > 1 => v[1] # "0"

\* JSON.parse restricted to the documents the upstream bodies of this model
\* hold: a flat object {"key":"value"} whose key and value contain neither a
\* quote nor a backslash, or {"key":number}.  Any other text met here (a
\* truncated object, an object with its opening brace cut off) is not JSON
\* and makes JSON.parse throw: ok = FALSE.  val is the text of the value:
\* the characters of a string, the decimal digits of a number.
JsonParse(j) ==
  LET n == Len(j)
      Q == {i \in 1..n : j[i] = DQ}
      q2 == CHOOSE i \in Q : i > 2 /\ \A k \in Q : k > 2 => k >= i
  IN IF /\ n >= 7
        /\ j[1] = "{"
        /\ j[n] = "}"
        /\ Cardinality(Q) = 4
        /\ 2 \in Q
        /\ (n - 1) \in Q
        /\ q2 + 2 \in Q
        /\ j[q2 + 1] = ":"
       THEN [ok |-> TRUE, type |-> "string",
             key |-> SubSeq(j, 3, q2 - 1), val |-> SubSeq(j, q2 + 3, n - 2)]
     ELSE IF /\ n >= 6
             /\ j[1] = "{"
             /\ j[n] = "}"
             /\ Cardinality(Q) = 2
             /\ 2 \in Q
             /\ j[q2 + 1] = ":"
             /\ IsNumberLiteral(SubSeq(j, q2 + 2, n - 1))
       THEN [ok |-> TRUE, type |-> "number",
             key |-> SubSeq(j, 3, q2 - 1), val |-> SubSeq(j, q2 + 2, n - 1)]
       ELSE [ok |-> FALSE, type |-> "none", key |-> <<>>, val |-> <<>>]

\* obj?.youChatToken ?? "", as the text that `full += t` appends and that
\* JSON.stringify writes into delta.content
YouChatTokenOf(obj) == IF obj.key = TokenKey THEN obj.val ELSE <<>>

\* if (t): the empty string and the number 0 are falsy
Truthy(obj) ==
  /\ YouChatTokenOf(obj) # <<>>
  /\ obj.type = "number" => obj.val # <<"0">>

\* ------------------------------------------------------ upstream SSE bodies
\* Lines the upstream sends (without their line terminator).
LineEvTok == TokenEventPrefix
LineEvDone == <<"e","v","e","n","t",":"," ","d","o","n","e">>
LineEvTokX == TokenEventPrefix \o <<"X">>
LineDataHel == <<"d","a","t","a",":"," ","{","\"","y","o","u","C","h","a","t","T","o","k","e","n","\"",":","\"","H","e","l","\"","}">>
LineDataLo == <<"d","a","t","a",":"," ","{","\"","y","o","u","C","h","a","t","T","o","k","e","n","\"",":","\"","l","o","\"","}">>
LineDataEmpty == <<"d","a","t","a",":"," ","{","\"","y","o","u","C","h","a","t","T","o","k","e","n","\"",":","\"","\"","}">>
LineDataZero == <<"d","a","t","a",":"," ","{","\"","y","o","u","C","h","a","t","T","o","k","e","n","\"",":","0","}">>
LineDataBad ==<<"d","a","t","a",":"," ","{","\"","y","o","u">>
Hel == <<"H","e","l">>
Lo == <<"l","o">>

\* The frames an upstream body is made of: the lines of each, the event
\* name its event line states ("" for a data line that follows no event
\* line) and the text its data line carries in the youChatToken field.
\*   tokHel    event: youChatToken / data: {"youChatToken":"Hel"}
\*   tokLo     the same for "lo", CRLF line ends, closed by a blank line
\*   tokEmpty  a token event whose token is the empty string
\*   tokBad    a token event whose data line is not JSON
\*   done      another event, with a youChatToken field in its data
\*   tokX      an event whose name only starts with youChatToken
\*   bare      a data line that follows no event line
\*   tokThenDone  a token event line with no data line, then another event
\*   tokZero   a token event whose token is the number 0, not a text
FrameKinds ==
  {"tokHel", "tokLo", "tokEmpty", "tokBad", "done", "tokX", "bare", "tokThenDone",
   "tokZero"}

FrameLines(k) ==
  CASE k = "tokHel"   -> <<LineEvTok, LineDataHel>>
    [] k = "tokLo"    -> <<LineEvTok \o <<CR>>, LineDataLo \o <<CR>>, <<CR>> >>
    [] k = "tokEmpty" -> <<LineEvTok, LineDataEmpty>>
    [] k = "tokBad"   -> <<LineEvTok, LineDataBad>>
    [] k = "done"     -> <<LineEvDone, LineDataLo>>
    [] k = "tokX"     -> <<LineEvTokX, LineDataLo>>
    [] k = "bare"     -> <<LineDataHel>>
    [] k = "tokThenDone" -> <<LineEvTok, LineEvDone, LineDataLo>>
    [] k = "tokZero"  -> <<LineEvTok, LineDataZero>>

FrameEventName(k) ==
  CASE k \in {"tokHel", "tokLo", "tokEmpty", "tokBad", "tokZero"} -> "youChatToken"
    [] k \in {"done", "tokThenDone"} -> "done"
    [] k = "tokX" -> "youChatTokenX"
    [] k = "bare" -> ""

FrameToken(k) ==
  CASE k \in {"tokHel", "bare"} -> Hel
    [] k \in {"tokLo", "done", "tokX", "tokThenDone"} -> Lo
    [] k \in {"tokEmpty", "tokBad", "tokZero"} -> <<>>

RECURSIVE JoinLines(_)
JoinLines(ls) ==
  IF ls = <<>> THEN <<>> ELSE Head(ls) \o <<NL>> \o JoinLines(Tail(ls))

RECURSIVE BodyOf(_)
BodyOf(fs) ==
  IF fs = <<>> THEN <<>> ELSE JoinLines(FrameLines(Head(fs))) \o BodyOf(Tail(fs))

FrameSeqs == UNION {[1..n -> FrameKinds] : n \in 0..MaxFrames}

\* --------------------------------------------------------------- variables
VARIABLES
  mode,        \* "collect" (openAIReq.stream falsy) or "stream"
  frames,      \* the frames of the upstream body (what the upstream sends)
  body,        \* resp.body: the characters of the upstream body
  pos,         \* characters of body that reader.read() has delivered
  rpc,         \* position of the relay: start, reading, built, closed
  buf,         \* let buf
  expectData,  \* let expectData
  full,        \* let full (collectYouTokensStream)
  enqueued,    \* what controller.enqueue has written to the client stream
  streamClosed,\* controller.close() has been called
  openAIResp,  \* the completion object of the non-streaming branch
  cancelled    \* the client has cancelled the response stream

relayVars == <<mode, frames, body, pos, rpc, buf, expectData, full, enqueued,
               streamClosed, openAIResp, cancelled>>

\* Handler invocations that may be in progress at once.
Reqs == {1, 2}

VARIABLES
  req,           \* the inbound request of each handler invocation
  pc,            \* the await each invocation is suspended at
  ctx,           \* the locals of each invocation
  calls,         \* the outbound fetch calls each invocation has issued
  resp,          \* the Response each invocation has returned
  originalModel  \* let originalModel (module level, line 1505)

handlerVars == <<req, pc, ctx, calls, resp, originalModel>>

VARIABLES
  hGiven,     \* openAIReq.messages as the request gave them
  hMessages,  \* openAIReq.messages after line 1570
  hLoop,      \* chatHistory, currentQuestion, currentAnswer, hasQuestion, hasAnswer
  hI,         \* let i of the loop of line 1577
  hpc         \* position: given, loop, built

historyVars == <<hGiven, hMessages, hLoop, hI, hpc>>

VARIABLES
  tContent,  \* a message content that grows
  tTokens,   \* countTokens(tContent)
  tBefore,   \* countTokens of the content before the last addition
  tAdded     \* what was added last: none, text, part, image

tokenVars == <<tContent, tTokens, tBefore, tAdded>>

\* handleStreamingChat (the SSE-translating variant)
VARIABLES
  chatFrames,   \* the lines the upstream answers with
  chatBody,     \* response.body: the characters of the upstream body
  chatPos,      \* characters of chatBody that reader.read() has delivered
  chatPc,       \* position: idle, fetch, reading, closed, rejected
  buffer,       \* let buffer
  written,      \* what writer.write has handed to the client stream
  closeCalls,   \* calls of writer.close()
  chatFailure,  \* what made the try block throw, "none" if nothing did
  chatCancelled \* the client has cancelled stream.readable

chatVars == <<chatFrames, chatBody, chatPos, chatPc, buffer, written, closeCalls,
              chatFailure, chatCancelled>>

\* handleStreamResponse (the chunk-simulating variants)
VARIABLES
  variant,      \* "mapped" (line 539) or "fixed" (line 191)
  responseData, \* what response.json() resolves to
  simContent,   \* let content / const content
  chunks,       \* const chunks
  sent,         \* chunks of `chunks` the for loop has sent
  simEnqueued,  \* what controller.enqueue has written to the client stream
  simPc         \* position: idle, fetch, sending, closed, errored

simVars == <<variant, responseData, simContent, chunks, sent, simEnqueued, simPc>>

\* handleStreamResponse of main.js (the TransformStream relay)
VARIABLES
  upFrames,     \* the lines the upstream body is made of
  upBody,       \* upstreamResponse.body: its characters
  upPos,        \* characters of upBody that transform has been called with
  upCalls,      \* calls of transform so far
  trEnqueued    \* what controller.enqueue has written to the client stream

transformVars == <<upFrames, upBody, upPos, upCalls, trEnqueued>>

variantVars == <<chatVars, simVars, transformVars>>

vars == <<relayVars, handlerVars, historyVars, tokenVars, variantVars>>


\* ---------------------------------------------------------------- the relay
\* What the client stream receives: the kick-off comment ":", a
\* "data: <chunk>\n\n" frame, or the "data: [DONE]\n\n" sentinel.
KickOff == [kind |-> "comment", content |-> <<>>, finish_reason |-> ""]
DoneSentinel == [kind |-> "done", content |-> <<>>, finish_reason |-> ""]

\* sendChunk(content): the frame enqueued (its id, created and model fields
\* play no part in the relay and are left out)
sendChunk(content) == [kind |-> "chunk", content |-> content, finish_reason |-> ""]

IsChunk(f) == f.kind = "chunk"
NonEmpty(t) == t # <<>>

\* delta.content of the content chunks written so far, in order
ChunkContents(q) ==
  LET cs == SelectSeq(q, IsChunk) IN [i \in 1..Len(cs) |-> cs[i].content]

RECURSIVE Concat(_)
Concat(ts) == IF ts = <<>> THEN <<>> ELSE Head(ts) \o Concat(Tail(ts))

\* The inner loop of collectYouTokensStream: consume every complete line of b.
RECURSIVE collectLines(_, _, _)
collectLines(b, e, f) ==
  LET nl == IndexOf(b, NL) IN
  IF nl < 0
    THEN [buf |-> b, expectData |-> e, full |-> f]
    ELSE LET line == StripCR(Slice2(b, 0, nl))
             rest == Slice(b, nl + 1)
         IN IF StartsWith(line, EventPrefix)
              THEN collectLines(rest, StartsWith(line, TokenEventPrefix), f)
              ELSE IF e /\ StartsWith(line, DataPrefix)
                THEN LET obj == JsonParse(Slice(line, 6))
                     IN collectLines(rest, FALSE,
                          IF obj.ok THEN f \o YouChatTokenOf(obj) ELSE f)
                ELSE collectLines(rest, e, f)

\* (mutant) a token is appended to the chunk enqueued last instead of being
\* sent as a chunk of its own
RECURSIVE streamLinesCoalescing(_, _, _)
streamLinesCoalescing(b, e, q) ==
  LET nl == IndexOf(b, NL) IN
  IF nl < 0
    THEN [buf |-> b, expectData |-> e, enqueued |-> q]
    ELSE LET line == StripCR(Slice2(b, 0, nl))
             rest == Slice(b, nl + 1)
         IN IF StartsWith(line, EventPrefix)
              THEN streamLinesCoalescing(rest, StartsWith(line, TokenEventPrefix), q)
              ELSE IF e /\ StartsWith(line, DataPrefix)
                THEN LET obj == JsonParse(Slice(line, 6))
                         t == IF obj.ok THEN YouChatTokenOf(obj) ELSE <<>>
                         last == q[Len(q)]
                     IN streamLinesCoalescing(rest, FALSE,
                          IF ~(obj.ok /\ Truthy(obj)) THEN q
                          ELSE IF last.kind = "chunk"
                            THEN [q EXCEPT ![Len(q)] = sendChunk(last.content \o t)]
                            ELSE Append(q, sendChunk(t)))
                ELSE streamLinesCoalescing(rest, e, q)

\* (mutant) a data line that is not JSON ends the loop: what follows it in
\* the buffer is lost
RECURSIVE streamLinesAborting(_, _, _)
streamLinesAborting(b, e, q) ==
  LET nl == IndexOf(b, NL) IN
  IF nl < 0
    THEN [buf |-> b, expectData |-> e, enqueued |-> q]
    ELSE LET line == StripCR(Slice2(b, 0, nl))
             rest == Slice(b, nl + 1)
         IN IF StartsWith(line, EventPrefix)
              THEN streamLinesAborting(rest, StartsWith(line, TokenEventPrefix), q)
              ELSE IF e /\ StartsWith(line, DataPrefix)
                THEN LET obj == JsonParse(Slice(line, 6))
                         t == IF obj.ok THEN YouChatTokenOf(obj) ELSE <<>>
                     IN IF obj.ok
                          THEN streamLinesAborting(rest, FALSE,
                                 IF Truthy(obj) THEN Append(q, sendChunk(t)) ELSE q)
                          ELSE [buf |-> <<>>, expectData |-> FALSE, enqueued |-> q]
                ELSE streamLinesAborting(rest, e, q)

\* (mutant) expectData is not reset after a data line: every data line that
\* follows a token event is extracted, until another event line comes
RECURSIVE streamLinesSticky(_, _, _)
streamLinesSticky(b, e, q) ==
  LET nl == IndexOf(b, NL) IN
  IF nl < 0
    THEN [buf |-> b, expectData |-> e, enqueued |-> q]
    ELSE LET line == StripCR(Slice2(b, 0, nl))
             rest == Slice(b, nl + 1)
         IN IF StartsWith(line, EventPrefix)
              THEN streamLinesSticky(rest, StartsWith(line, TokenEventPrefix), q)
              ELSE IF e /\ StartsWith(line, DataPrefix)
                THEN LET obj == JsonParse(Slice(line, 6))
                         t == IF obj.ok THEN YouChatTokenOf(obj) ELSE <<>>
                     IN streamLinesSticky(rest, e,
                          IF obj.ok /\ Truthy(obj) THEN Append(q, sendChunk(t)) ELSE q)
                ELSE streamLinesSticky(rest, e, q)

\* The inner loop of streamOpenAIChunks: consume every complete line of b.
RECURSIVE streamLines(_, _, _)
streamLines(b, e, q) ==
  LET nl == IndexOf(b, NL) IN
  IF nl < 0
    THEN [buf |-> b, expectData |-> e, enqueued |-> q]
    ELSE LET line == StripCR(Slice2(b, 0, nl))
             rest == Slice(b, nl + 1)
         IN IF StartsWith(line, EventPrefix)
              THEN streamLines(rest, StartsWith(line, TokenEventPrefix), q)
              ELSE IF e /\ StartsWith(line, DataPrefix)
                THEN LET obj == JsonParse(Slice(line, 6))
                         t == IF obj.ok THEN YouChatTokenOf(obj) ELSE <<>>
                     IN streamLines(rest, FALSE,
                          IF obj.ok /\ Truthy(obj) THEN Append(q, sendChunk(t)) ELSE q)
                ELSE streamLines(rest, e, q)

\* (mutant) buf = dec.decode(value): the unfinished line of the last read is dropped
DecodedUnbuffered(b, value) == value

\* buf += dec.decode(value, { stream: true })
Decoded(b, value) == b \o value

\* (mutant) the sentinel is written before controller.close()
FramesAtEndWithDone == <<DoneSentinel>>

\* What streamOpenAIChunks writes between the end of the upstream body and
\* controller.close(): nothing.
FramesAtEnd == <<>>

NoResp == [object |-> "none", content |-> <<>>, finish_reason |-> ""]

\* start(controller): controller.enqueue(enc.encode(`:`))
StreamStart ==
  /\ mode = "stream" /\ rpc = "start"
  /\ enqueued' = Append(enqueued, KickOff)
  /\ rpc' = "reading"
  /\ UNCHANGED <<mode, frames, body, pos, buf, expectData, full, streamClosed, openAIResp, cancelled, handlerVars, historyVars, tokenVars, variantVars>>

\* One pass of the outer loop of collectYouTokensStream: reader.read()
\* delivers the next n characters.
CollectRead(n) ==
  /\ mode = "collect" /\ rpc = "reading"
  /\ pos + n <= Len(body)
  /\ LET value == SubSeq(body, pos + 1, pos + n)
         r == collectLines(Decoded(buf, value), expectData, full)
     IN /\ buf' = r.buf
        /\ expectData' = r.expectData
        /\ full' = r.full
  /\ pos' = pos + n
  /\ UNCHANGED <<mode, frames, body, rpc, enqueued, streamClosed, openAIResp, cancelled, handlerVars, historyVars, tokenVars, variantVars>>

\* reader.read() returns done: collectYouTokensStream returns full and the
\* handler builds the completion object.
CollectDone ==
  /\ mode = "collect" /\ rpc = "reading"
  /\ pos = Len(body)
  /\ openAIResp' = [object |-> "chat.completion", content |-> full, finish_reason |-> "stop"]
  /\ rpc' = "built"
  /\ UNCHANGED <<mode, frames, body, pos, buf, expectData, full, enqueued, streamClosed, cancelled, handlerVars, historyVars, tokenVars, variantVars>>

\* One pass of the outer loop of streamOpenAIChunks. Once the client has
\* cancelled, the stream is closed and controller.enqueue throws a TypeError:
\* the pass ends at its first sendChunk, and start() with it.
StreamRead(n) ==
  /\ mode = "stream" /\ rpc = "reading"
  /\ pos + n <= Len(body)
  /\ LET value == SubSeq(body, pos + 1, pos + n)
         r == streamLines(Decoded(buf, value), expectData, enqueued)
     IN IF cancelled /\ r.enqueued # enqueued
          THEN /\ rpc' = "thrown"
               /\ UNCHANGED <<buf, expectData, enqueued>>
          ELSE /\ buf' = r.buf
               /\ expectData' = r.expectData
               /\ enqueued' = r.enqueued
               /\ rpc' = rpc
  /\ pos' = pos + n
  /\ UNCHANGED <<mode, frames, body, full, streamClosed, openAIResp, cancelled, handlerVars, historyVars, tokenVars, variantVars>>

\* reader.read() returns done: controller.close(), which throws a TypeError
\* on a stream the client has cancelled
StreamDone ==
  /\ mode = "stream" /\ rpc = "reading"
  /\ pos = Len(body)
  /\ IF cancelled
       THEN /\ rpc' = "thrown"
            /\ UNCHANGED <<enqueued, streamClosed>>
       ELSE /\ enqueued' = enqueued \o FramesAtEnd
            /\ streamClosed' = TRUE
            /\ rpc' = "closed"
  /\ UNCHANGED <<mode, frames, body, pos, buf, expectData, full, openAIResp, cancelled, handlerVars, historyVars, tokenVars, variantVars>>

\* What start() writes when reader.read() rejects: nothing, no try block
\* surrounds the loop.
FramesOnReadError == <<>>

\* await reader.read() rejects (the upstream connection breaks). In
\* streamOpenAIChunks the rejection leaves start(), which errors the client
\* stream; in collectYouTokensStream it leaves the handler.
ReadFails ==
  /\ rpc = "reading"
  /\ enqueued' = IF mode = "stream" /\ ~cancelled
                   THEN enqueued \o FramesOnReadError ELSE enqueued
  /\ rpc' = "errored"
  /\ UNCHANGED <<mode, frames, body, pos, buf, expectData, full, streamClosed, openAIResp, cancelled, handlerVars, historyVars, tokenVars, variantVars>>

\* The client cancels the response stream. The underlying source given to
\* new ReadableStream has a start method only: no cancel method tells the
\* loop, and nothing cancels or releases reader.
ClientCancel ==
  /\ mode = "stream" /\ rpc = "reading"
  /\ ~cancelled
  /\ cancelled' = TRUE
  /\ UNCHANGED <<mode, frames, body, pos, rpc, buf, expectData, full, enqueued, streamClosed, openAIResp, handlerVars, historyVars, tokenVars, variantVars>>

\* ============================================================ the handler
\* ------------------------------------------------ configuration (1109-1169)
MaxContextTokens == 2000
\* tk >= 30: the size from which a history question or answer is uploaded
HistoryOffloadTokens == 30
\* countTokens: tokens counted for one image_url part
ImageTokens == 85
\* countTokensForMessages: tokens added for each message
PerMessageTokens == 2

\* const modelMap, as <<OpenAI name, you.com name>> in the order of the source
modelMap ==
  <<<<"deepseek-reasoner", "deepseek_r1">>,
    <<"deepseek-chat", "deepseek_v3">>,
    <<"o3-mini-high", "openai_o3_mini_high">>,
    <<"o1", "openai_o1">>,
    <<"gpt5", "gpt_5">>,
    <<"gpt5-mini", "gpt_5_mini">>,
    <<"gpt-4o", "gpt_4o">>,
    <<"gpt-4o-mini", "gpt_4o_mini">>,
    <<"claude-3-opus", "claude_3_opus">>,
    <<"claude-3.5-sonnet", "claude_3_5_sonnet">>,
    <<"gemini-1.5-pro", "gemini_1_5_pro">>,
    <<"gemini-2.0-flash", "gemini_2_flash">>,
    <<"llama-3.3-70b", "llama3_3_70b">>,
    <<"llama-4-maverick", "llama4_maverick">>,
    <<"llama-4-scout", "llama4_scout">>,
    <<"mistral-large-2", "mistral_large_2">>,
    <<"qwen3-235b", "qwen3_235b">>,
    <<"qwq-32b", "qwq_32b">>,
    <<"qwen-2.5-72b", "qwen2p5_72b">>,
    <<"qwen-2.5-coder-32b", "qwen2p5_coder_32b">>,
    <<"command-r-plus", "command_r_plus">>,
    <<"claude-3-7-sonnet", "claude_3_7_sonnet">>,
    <<"claude-3-7-sonnet-think", "claude_3_7_sonnet_thinking">>,
    <<"claude-4-sonnet", "claude_4_sonnet">>,
    <<"claude-4-sonnet-think", "claude_4_sonnet_thinking">>,
    <<"claude-4-opus", "claude_4_opus">>,
    <<"claude-4-1-opus", "claude_4_1_opus">>,
    <<"claude-4-opus-think", "claude_4_opus_thinking">>,
    <<"claude-4-1-opus-think", "claude_4_1_opus_thinking">>,
    <<"gemini-2.5-pro", "gemini_2_5_pro_preview">>,
    <<"o3", "openai_o3">>,
    <<"o3-pro", "openai_o3_pro">>,
    <<"o4-mini-high", "openai_o4_mini_high">>,
    <<"gpt-4.1", "gpt_4_1">>,
    <<"grok-4", "grok_4">>,
    <<"grok-3-beta", "grok_3">>,
    <<"grok-3-mini", "grok_3_mini">>,
    <<"grok-2", "grok_2">>,
    <<"nous-hermes-2", "nous_hermes_2">> >>

\* modelMap is an object literal: a lookup that finds no own property goes on
\* to Object.prototype, whose properties are functions (an object for
\* __proto__), none of them null or undefined.
ObjectPrototypeKeys ==
  {"constructor", "toString", "toLocaleString", "valueOf", "hasOwnProperty",
   "isPrototypeOf", "propertyIsEnumerable", "__proto__"}
\* what such a value becomes when it is put in a URL parameter or used as a key
InheritedValue(k) == "Object.prototype." \o k

\* modelMap[openAIModel] ?? "deepseek_v3"
mapModelName(openAIModel) ==
  IF \E i \in 1..Len(modelMap) : modelMap[i][1] = openAIModel
    THEN modelMap[CHOOSE i \in 1..Len(modelMap) : modelMap[i][1] = openAIModel][2]
    ELSE IF openAIModel \in ObjectPrototypeKeys
      THEN InheritedValue(openAIModel)
    ELSE "deepseek_v3"

\* const agentModelIDs: the ids listed in the environment variable
\* AGENT_MODEL_IDS, here one id
agentModelIDs == <<"research">>

\* agentModelIDs.includes(id)
isAgentModel(id) == \E i \in 1..Len(agentModelIDs) : agentModelIDs[i] = id

\* getReverseModelMap()[internal] ?? "deepseek-chat": for (const k in modelMap)
\* rev[modelMap[k]] = k, so the last key holding a value is the one kept
reverseMapOr(internal) ==
  LET I == {i \in 1..Len(modelMap) : modelMap[i][2] = internal}
  IN IF I = {} THEN "deepseek-chat"
     ELSE modelMap[CHOOSE i \in I : \A k \in I : k <= i][1]

\* ------------------------------------------------ messages and their text
SP == " "
Whitespace == {SP, NL, CR, "\t"}

\* A message content: a string, an array of parts, or undefined.
StringContent(t) == [kind |-> "string", text |-> t, parts |-> <<>>]
ArrayContent(ps) == [kind |-> "array", text |-> <<>>, parts |-> ps]
UndefinedContent == [kind |-> "undefined", text |-> <<>>, parts |-> <<>>]
TextPart(t) == [type |-> "text", text |-> t, url |-> ""]
\* url: "data" a well-formed data: URL, "baddata" a data: URL that does not
\* match data:<mime>;base64,<payload>, "http" any other URL, "" none
ImagePart(u) == [type |-> "image_url", text |-> <<>>, url |-> u]
Message(role, content) == [role |-> role, content |-> content]

\* Array.prototype.join("\n")
RECURSIVE JoinNL(_)
JoinNL(ts) ==
  IF ts = <<>> THEN <<>>
  ELSE IF Len(ts) = 1 THEN ts[1]
  ELSE ts[1] \o <<NL>> \o JoinNL(Tail(ts))

\* extractTextContent(content)
extractTextContent(content) ==
  IF content.kind = "string" THEN content.text
  ELSE IF content.kind = "array"
    THEN LET texts == [i \in 1..Len(content.parts) |->
                        IF content.parts[i].type = "text"
                          THEN content.parts[i].text ELSE <<>>]
         IN JoinNL(SelectSeq(texts, LAMBDA t : t # <<>>))
  ELSE <<>>

\* hasImageContent(content)
hasImageContent(content) ==
  /\ content.kind = "array"
  /\ \E i \in 1..Len(content.parts) :
       content.parts[i].type = "image_url" /\ content.parts[i].url # ""

\* text.trim() ? text.trim().split(/\s+/).length : 0
WordCount(text) ==
  Cardinality({i \in 1..Len(text) :
     text[i] \notin Whitespace /\ (i = 1 \/ text[i - 1] \in Whitespace)})

\* (mutant) imageCount = 1 when there is any image part
countTokensAnyImage(content) ==
  LET imageCount ==
        IF content.kind = "array"
             /\ \E i \in 1..Len(content.parts) : content.parts[i].type = "image_url"
          THEN 1 ELSE 0
  IN WordCount(extractTextContent(content)) + imageCount * ImageTokens

\* countTokens(content)
countTokens(content) ==
  LET imageCount ==
        IF content.kind = "array"
          THEN Cardinality({i \in 1..Len(content.parts) :
                              content.parts[i].type = "image_url"})
          ELSE 0
  IN WordCount(extractTextContent(content)) + imageCount * ImageTokens

\* countTokensForMessages(messages)
RECURSIVE countTokensForMessages(_)
countTokensForMessages(ms) ==
  IF ms = <<>> THEN 0
  ELSE countTokens(Head(ms).content) + PerMessageTokens
         + countTokensForMessages(Tail(ms))

\* The value of openAIReq.messages: an array of messages, a string (whose
\* characters have neither role nor content), or undefined.
ArrayMessages(ms) == [kind |-> "array", elems |-> ms]
StringMessages(n) ==
  [kind |-> "string", elems |-> [i \in 1..n |-> Message("undefined", UndefinedContent)]]
UndefinedMessages == [kind |-> "undefined", elems |-> <<>>]

\* (mutant) sys += t
RECURSIVE SystemTextUnseparated(_, _)
SystemTextUnseparated(ms, sys) ==
  IF ms = <<>> THEN sys
  ELSE IF Head(ms).role = "system"
    THEN SystemTextUnseparated(Tail(ms), sys \o extractTextContent(Head(ms).content))
    ELSE SystemTextUnseparated(Tail(ms), sys)

\* the system texts of ms joined by "\n": sys += (sys ? "\n" : "") + t
RECURSIVE SystemText(_, _)
SystemText(ms, sys) ==
  IF ms = <<>> THEN sys
  ELSE IF Head(ms).role = "system"
    THEN SystemText(Tail(ms),
           sys \o (IF sys # <<>> THEN <<NL>> ELSE <<>>)
               \o extractTextContent(Head(ms).content))
    ELSE SystemText(Tail(ms), sys)

\* convertSystemToUserMessages(messages)
convertSystemToUserMessages(messages) ==
  IF messages.kind = "undefined" THEN ArrayMessages(<<>>)
  ELSE IF messages.kind # "array" \/ messages.elems = <<>> THEN messages
  ELSE LET sys == SystemText(messages.elems, <<>>)
           rest == SelectSeq(messages.elems, LAMBDA m : m.role # "system")
       IN IF sys # <<>>
            THEN ArrayMessages(<<Message("user", StringContent(sys))>> \o rest)
            ELSE ArrayMessages(rest)

\* ------------------------------------------- chat history fold (1572-1604)
QA(q, a) == [Question |-> q, Answer |-> a]

FoldStart ==
  [chatHistory |-> <<>>, currentQuestion |-> <<>>, currentAnswer |-> <<>>,
   hasQuestion |-> FALSE, hasAnswer |-> FALSE]

\* (mutant) a user message that follows an unanswered question replaces it
FoldMessageReplacing(a, msg) ==
  LET t == extractTextContent(msg.content) IN
  IF msg.role = "user" THEN
    IF a.hasQuestion /\ a.hasAnswer
      THEN [a EXCEPT !.chatHistory = Append(@, QA(a.currentQuestion, a.currentAnswer)),
                     !.currentQuestion = t, !.currentAnswer = <<>>,
                     !.hasQuestion = TRUE, !.hasAnswer = FALSE]
    ELSE [a EXCEPT !.currentQuestion = t, !.hasQuestion = TRUE]
  ELSE IF msg.role = "assistant" THEN
    IF a.hasQuestion
      THEN [a EXCEPT !.currentAnswer = t, !.hasAnswer = TRUE]
    ELSE [a EXCEPT !.currentQuestion = <<>>, !.currentAnswer = t,
                   !.hasQuestion = TRUE, !.hasAnswer = TRUE]
  ELSE a

\* (mutant) a leading assistant message opens an answer without a question
FoldMessageUnopened(a, msg) ==
  LET t == extractTextContent(msg.content) IN
  IF msg.role = "user" THEN
    IF a.hasQuestion /\ a.hasAnswer
      THEN [a EXCEPT !.chatHistory = Append(@, QA(a.currentQuestion, a.currentAnswer)),
                     !.currentQuestion = t, !.currentAnswer = <<>>,
                     !.hasQuestion = TRUE, !.hasAnswer = FALSE]
    ELSE IF a.hasQuestion
      THEN [a EXCEPT !.currentQuestion = @ \o <<NL>> \o t]
    ELSE [a EXCEPT !.currentQuestion = t, !.hasQuestion = TRUE]
  ELSE IF msg.role = "assistant" THEN
    IF a.hasQuestion
      THEN [a EXCEPT !.currentAnswer = t, !.hasAnswer = TRUE]
    ELSE IF a.hasAnswer
      THEN [a EXCEPT !.currentAnswer = @ \o <<NL>> \o t]
    ELSE [a EXCEPT !.currentQuestion = <<>>, !.currentAnswer = t, !.hasAnswer = TRUE]
  ELSE a

\* one pass of the loop over openAIReq.messages
FoldMessage(a, msg) ==
  LET t == extractTextContent(msg.content) IN
  IF msg.role = "user" THEN
    IF a.hasQuestion /\ a.hasAnswer
      THEN [a EXCEPT !.chatHistory = Append(@, QA(a.currentQuestion, a.currentAnswer)),
                     !.currentQuestion = t, !.currentAnswer = <<>>,
                     !.hasQuestion = TRUE, !.hasAnswer = FALSE]
    ELSE IF a.hasQuestion
      THEN [a EXCEPT !.currentQuestion = @ \o <<NL>> \o t]
    ELSE [a EXCEPT !.currentQuestion = t, !.hasQuestion = TRUE]
  ELSE IF msg.role = "assistant" THEN
    IF a.hasQuestion
      THEN [a EXCEPT !.currentAnswer = t, !.hasAnswer = TRUE]
    ELSE IF a.hasAnswer
      THEN [a EXCEPT !.currentAnswer = @ \o <<NL>> \o t]
    ELSE [a EXCEPT !.currentQuestion = <<>>, !.currentAnswer = t,
                   !.hasQuestion = TRUE, !.hasAnswer = TRUE]
  ELSE a

RECURSIVE FoldMessages(_, _)
FoldMessages(ms, a) ==
  IF ms = <<>> THEN a ELSE FoldMessages(Tail(ms), FoldMessage(a, Head(ms)))

\* (mutant) the open turn is pushed only when it has an answer
FinalPushAnswered(a) ==
  IF a.hasQuestion /\ a.hasAnswer
    THEN Append(a.chatHistory, QA(a.currentQuestion, a.currentAnswer))
    ELSE a.chatHistory

\* lines 1602-1604: chatHistory after the push that follows the loop
FinalPush(a) ==
  IF a.hasQuestion
    THEN Append(a.chatHistory,
                QA(a.currentQuestion, IF a.hasAnswer THEN a.currentAnswer ELSE <<>>))
    ELSE a.chatHistory

\* const chatHistory after the loop and the final push
buildChatHistory(messages) ==
  LET n == Len(messages.elems)
  IN FinalPush(FoldMessages(SubSeq(messages.elems, 1, n - 1), FoldStart))

\* The same code taken one step at a time: line 1570,
HistoryConvert ==
  /\ hpc = "given"
  /\ hMessages' = convertSystemToUserMessages(ArrayMessages(hGiven)).elems
  /\ hpc' = "loop"
  /\ UNCHANGED <<hGiven, hLoop, hI, relayVars, handlerVars, tokenVars, variantVars>>

\* one pass of the loop of line 1577 (i counts from 0),
HistoryStep ==
  /\ hpc = "loop"
  /\ hI < Len(hMessages) - 1
  /\ hLoop' = FoldMessage(hLoop, hMessages[hI + 1])
  /\ hI' = hI + 1
  /\ UNCHANGED <<hGiven, hMessages, hpc, relayVars, handlerVars, tokenVars, variantVars>>

\* and the end of the loop with the push of lines 1602-1604.
HistoryFinish ==
  /\ hpc = "loop"
  /\ ~(hI < Len(hMessages) - 1)
  /\ hLoop' = [hLoop EXCEPT !.chatHistory = FinalPush(hLoop)]
  /\ hpc' = "built"
  /\ UNCHANGED <<hGiven, hMessages, hI, relayVars, handlerVars, tokenVars, variantVars>>


\* ------------------------------------------------------- uploads (1301-1397)
\* The text put in place of an uploaded text is the phrase of lines 1622,
\* 1637 and 1669 (written here in English), then the user filename with a
\* trailing .txt (any case) removed, then ".txt".
OffloadPhrase == <<"view this file and chat with its content directly:">>
DotTxt == <<".", "t", "x", "t">>

\* up.UserFilename.replace(/\.txt$/i, "")
StripTxt(name) ==
  LET n == Len(name) IN
  IF /\ n >= 4
     /\ name[n - 3] = "."
     /\ name[n - 2] \in {"t", "T"}
     /\ name[n - 1] \in {"x", "X"}
     /\ name[n] \in {"t", "T"}
    THEN SubSeq(name, 1, n - 4) ELSE name

\* (mutant) the name is left without an extension
OffloadNoticeStripped(up) == OffloadPhrase \o StripTxt(up.UserFilename)

OffloadNotice(up) == OffloadPhrase \o StripTxt(up.UserFilename) \o DotTxt

\* what sources.push receives
Source(up, size) ==
  [source_type |-> "user_file", filename |-> up.Filename,
   user_filename |-> up.UserFilename, size_bytes |-> size]

\* the bytes of an image (decodeDataUrl, downloadImage)
ImageBytes == <<"i", "m", "g">>

\* ------------------------------------------------- the handler's operations
Call(api, tag) == [api |-> api, tag |-> tag]

NoResponse ==
  [status |-> 0, body |-> "", cors |-> FALSE, kind |-> "none",
   model |-> "", content |-> <<>>]

\* new Response(body, { status, headers })
Response(status, text, cors) ==
  [status |-> status, body |-> text, cors |-> cors, kind |-> "text",
   model |-> "", content |-> <<>>]

\* An exception no try block of the handler catches: Deno.serve answers 500
\* itself, without the handler's CORS headers.
UncaughtError == Response(500, "Internal Server Error", FALSE)

\* what the search endpoint answered to one fetch
Answer(status, text, hasBody) == [status |-> status, text |-> text, hasBody |-> hasBody]

NoTarget == [stage |-> "none", i |-> 0, part |-> ""]

\* the query parameters of youUrl the handler decides on; a parameter that
\* is not set has has... = FALSE
NoParams ==
  [hasSelectedAiModel |-> FALSE, selectedAiModel |-> "",
   hasSelectedChatMode |-> FALSE, selectedChatMode |-> "",
   hasSources |-> FALSE, sources |-> <<>>,
   q |-> <<>>, chat |-> <<>>, pastChatLength |-> 0]

\* model: openAIReq.model; uploads: whether each upload so far succeeded;
\* uploaded: what sources.push receives for each of them, in the order in which
\* uploadFile returned
NoCtx ==
  [messages |-> ArrayMessages(<<>>), chatHistory |-> <<>>, sources |-> <<>>,
   target |-> NoTarget, lastTokens |-> 0, finalQuery |-> <<>>,
   imgK |-> 0, imgText |-> <<>>, imgSources |-> <<>>, modelForResp |-> "",
   nonceOk |-> TRUE, answers |-> <<>>, model |-> "", uploads |-> <<>>,
   uploaded |-> <<>>, params |-> NoParams]

\* The handler runs from one await to the next; each operator below is the
\* code from one point on, up to the await it stops at (pc), with the calls
\* it issues on the way and the Response it returns, if any.
Suspend(at, c, issued) ==
  [pc |-> at, ctx |-> c, calls |-> issued, resp |-> NoResponse]
Return(c, r) == [pc |-> "done", ctx |-> c, calls |-> <<>>, resp |-> r]

\* (mutant) a model that is no agent gets no selectedChatMode
YouParamsOneSelector(model, sources, finalQuery, chatHistory) ==
  [hasSelectedAiModel |-> ~isAgentModel(model),
   selectedAiModel |-> IF isAgentModel(model) THEN "" ELSE mapModelName(model),
   hasSelectedChatMode |-> isAgentModel(model),
   selectedChatMode |-> IF isAgentModel(model) THEN model ELSE "",
   hasSources |-> sources # <<>>,
   sources |-> sources,
   q |-> finalQuery, chat |-> chatHistory, pastChatLength |-> Len(chatHistory)]

\* (mutant) params.set("sources", JSON.stringify(sources)) whatever its length
YouParamsAlwaysSources(model, sources, finalQuery, chatHistory) ==
  [hasSelectedAiModel |-> ~isAgentModel(model),
   selectedAiModel |-> IF isAgentModel(model) THEN "" ELSE mapModelName(model),
   hasSelectedChatMode |-> TRUE,
   selectedChatMode |-> IF isAgentModel(model) THEN model ELSE "custom",
   hasSources |-> TRUE,
   sources |-> sources,
   q |-> finalQuery, chat |-> chatHistory, pastChatLength |-> Len(chatHistory)]

\* lines 1683-1711: the parameters that depend on the request
YouParams(model, sources, finalQuery, chatHistory) ==
  [hasSelectedAiModel |-> ~isAgentModel(model),
   selectedAiModel |-> IF isAgentModel(model) THEN "" ELSE mapModelName(model),
   hasSelectedChatMode |-> TRUE,
   selectedChatMode |-> IF isAgentModel(model) THEN model ELSE "custom",
   hasSources |-> sources # <<>>,
   sources |-> sources,
   q |-> finalQuery, chat |-> chatHistory, pastChatLength |-> Len(chatHistory)]

\* lines 1672-1736: the image sources are appended to sources and the probe
\* request is sent
RunProbe(c) ==
  LET sources == c.sources \o c.imgSources
  IN Suspend("probe",
       [c EXCEPT !.sources = sources, !.imgSources = <<>>,
                 !.params = YouParams(c.model, sources, c.finalQuery, c.chatHistory)],
       <<Call("streamingSearch", "probe")>>)

\* (mutant) if (lastTokens >= MaxContextTokens)
RunFinalAtCeiling(c) ==
  IF c.lastTokens >= MaxContextTokens
    THEN Suspend("nonce", [c EXCEPT !.target = [stage |-> "final", i |-> 0, part |-> "final"]],
                 <<Call("get_nonce", "final")>>)
    ELSE RunProbe(c)

\* lines 1660-1670: the last message is uploaded when it is too long
RunFinal(c) ==
  IF c.lastTokens > MaxContextTokens
    THEN Suspend("nonce", [c EXCEPT !.target = [stage |-> "final", i |-> 0, part |-> "final"]],
                 <<Call("get_nonce", "final")>>)
    ELSE RunProbe(c)

\* processImageContent from part k on (lines 1377-1396); a throw inside it is
\* caught at line 1652
ImageFailure(c) ==
  Return(c, Response(500, "Failed to process image content", TRUE))

RECURSIVE RunImages(_, _)
RunImages(c, k) ==
  LET parts == c.messages.elems[Len(c.messages.elems)].content.parts IN
  IF k > Len(parts)
    THEN RunFinal([c EXCEPT !.finalQuery = c.imgText])
    ELSE LET p == parts[k]
             c1 == IF p.type = "text"
                     THEN [c EXCEPT !.imgText =
                             @ \o (IF @ # <<>> THEN <<NL>> ELSE <<>>) \o p.text]
                     ELSE c
         IN IF p.type = "image_url" /\ p.url # ""
              THEN IF p.url = "data"
                     THEN Suspend("imgupload", [c1 EXCEPT !.imgK = k],
                                  <<Call("upload", "image")>>)
                   ELSE IF p.url = "baddata"
                     THEN ImageFailure(c1)
                   ELSE Suspend("download", [c1 EXCEPT !.imgK = k],
                                <<Call("image", "image")>>)
              ELSE RunImages(c1, k + 1)

\* lines 1642-1658
RunLast(c) ==
  LET n == Len(c.messages.elems) IN
  IF n = 0
    THEN Return(c, UncaughtError)
    ELSE LET lastMessage == c.messages.elems[n]
             c1 == [c EXCEPT !.lastTokens = countTokensForMessages(<<lastMessage>>)]
         IN IF hasImageContent(lastMessage.content)
              THEN RunImages([c1 EXCEPT !.imgText = <<>>], 1)
              ELSE RunFinal([c1 EXCEPT !.finalQuery =
                                         extractTextContent(lastMessage.content)])

\* (mutant) if (tk > 30)
RECURSIVE RunHistoryAbove(_, _, _)
RunHistoryAbove(c, i, part) ==
  IF i > Len(c.chatHistory)
    THEN RunLast(c)
    ELSE LET text == IF part = "Q" THEN c.chatHistory[i].Question
                                   ELSE c.chatHistory[i].Answer
             role == IF part = "Q" THEN "user" ELSE "assistant"
             tk == countTokensForMessages(<<Message(role, StringContent(text))>>)
         IN IF text # <<>> /\ tk > HistoryOffloadTokens
              THEN Suspend("nonce",
                           [c EXCEPT !.target = [stage |-> "hist", i |-> i, part |-> part]],
                           <<Call("get_nonce", part)>>)
              ELSE IF part = "Q" THEN RunHistoryAbove(c, i, "A")
                                 ELSE RunHistoryAbove(c, i + 1, "Q")

\* the loop of lines 1608-1640 from the question (part "Q") or the answer
\* (part "A") of entry i on
RECURSIVE RunHistory(_, _, _)
RunHistory(c, i, part) ==
  IF i > Len(c.chatHistory)
    THEN RunLast(c)
    ELSE LET text == IF part = "Q" THEN c.chatHistory[i].Question
                                   ELSE c.chatHistory[i].Answer
             role == IF part = "Q" THEN "user" ELSE "assistant"
             tk == countTokensForMessages(<<Message(role, StringContent(text))>>)
         IN IF text # <<>> /\ tk >= HistoryOffloadTokens
              THEN Suspend("nonce",
                           [c EXCEPT !.target = [stage |-> "hist", i |-> i, part |-> part]],
                           <<Call("get_nonce", part)>>)
              ELSE IF part = "Q" THEN RunHistory(c, i, "A")
                                 ELSE RunHistory(c, i + 1, "Q")

\* (mutant) the offload loop looks at the answer of the first turn first
RunBodyAnswerFirst(b) ==
  IF b.json # "object"
    THEN Return(NoCtx, UncaughtError)
    ELSE LET ms == convertSystemToUserMessages(b.messages)
         IN RunHistory([NoCtx EXCEPT !.messages = ms, !.model = b.model,
                                     !.chatHistory = buildChatHistory(ms)], 1, "A")

\* lines 1567-1604 for a body that parsed as JSON
RunBody(b) ==
  IF b.json # "object"
    THEN Return(NoCtx, UncaughtError)
    ELSE LET ms == convertSystemToUserMessages(b.messages)
         IN RunHistory([NoCtx EXCEPT !.messages = ms, !.model = b.model,
                                     !.chatHistory = buildChatHistory(ms)], 1, "Q")

BearerPrefix == <<"B","e","a","r","e","r"," ">>

\* (mutant) auth.startsWith("Bearer"): the space after the scheme is not asked for
AuthorizedLoose(auth) == StartsWith(auth, <<"B","e","a","r","e","r">>)

\* auth.startsWith("Bearer ")
Authorized(auth) == StartsWith(auth, BearerPrefix)

ChatPaths == {"/v1/chat/completions", "/none/v1/chat/completions", "/such/chat/completions"}
ModelsPaths == {"/v1/models", "/api/v1/models"}

\* !resp.ok
Ok(status) == status \in 200..299

Apply(r, o) ==
  /\ pc' = [pc EXCEPT ![r] = o.pc]
  /\ ctx' = [ctx EXCEPT ![r] = o.ctx]
  /\ calls' = [calls EXCEPT ![r] = @ \o o.calls]
  /\ resp' = [resp EXCEPT ![r] = o.resp]

\* lines 1515-1563: from the arrival of the request to await req.json()
Serve(r) ==
  /\ pc[r] = "start"
  /\ Apply(r,
       IF req[r].method = "OPTIONS"
         THEN Return(NoCtx, Response(200, "", TRUE))
       ELSE IF req[r].path \in ModelsPaths
         THEN Return(NoCtx, [Response(200, "models", TRUE) EXCEPT !.kind = "models"])
       ELSE IF req[r].path \notin ChatPaths
         THEN Return(NoCtx, Response(200, "You2Api Service Running...", TRUE))
       ELSE IF ~Authorized(req[r].auth)
         THEN Return(NoCtx, Response(401, "Missing or invalid authorization header", TRUE))
       ELSE Suspend("json", NoCtx, <<>>))
  /\ UNCHANGED <<req, originalModel, relayVars, historyVars, tokenVars, variantVars>>

\* lines 1563-1736: req.json() settles
ParseBody(r) ==
  /\ pc[r] = "json"
  /\ IF req[r].body.json = "invalid"
       THEN /\ Apply(r, Return(NoCtx, Response(400, "Invalid request body", TRUE)))
            /\ UNCHANGED originalModel
       ELSE /\ originalModel' = (IF req[r].body.json = "object" THEN req[r].body.model ELSE "")
            /\ Apply(r, RunBody(req[r].body))
  /\ UNCHANGED <<req, relayVars, historyVars, tokenVars, variantVars>>

\* (mutant) await getNonce(dsToken): a failed nonce request ends the request
NonceReturnsFatal(r) ==
  /\ pc[r] = "nonce"
  /\ \E ok \in BOOLEAN :
       Apply(r, IF ok THEN Suspend("upload", [ctx[r] EXCEPT !.nonceOk = ok],
                                   <<Call("upload", ctx[r].target.part)>>)
                      ELSE Return([ctx[r] EXCEPT !.nonceOk = ok], UncaughtError))
  /\ UNCHANGED <<req, originalModel, relayVars, historyVars, tokenVars, variantVars>>

\* getNonce(dsToken).catch(() => {}) settles, either way; uploadFile is called
NonceReturns(r) ==
  /\ pc[r] = "nonce"
  /\ \E ok \in BOOLEAN :
       Apply(r, Suspend("upload", [ctx[r] EXCEPT !.nonceOk = ok],
                        <<Call("upload", ctx[r].target.part)>>))
  /\ UNCHANGED <<req, originalModel, relayVars, historyVars, tokenVars, variantVars>>

\* What the upload endpoint answers: a non-success status, or the names of
\* the stored file.
UploadNames == {<<"u", ".", "T", "X", "T">>, <<"v">>}
UploadOutcomes ==
  {[ok |-> FALSE, Filename |-> "", UserFilename |-> <<>>]}
    \cup {[ok |-> TRUE, Filename |-> "stored", UserFilename |-> n] : n \in UploadNames}

\* (mutant) a failed upload of a text is skipped: the text stays as it is
UploadReturnsSkipping(r) ==
  /\ pc[r] = "upload"
  /\ \E up \in UploadOutcomes :
       LET c == [ctx[r] EXCEPT !.uploads = Append(@, up.ok)]
           t == c.target
       IN Apply(r,
            IF ~up.ok
              THEN IF t.stage = "final" THEN RunProbe(c)
                   ELSE IF t.part = "Q" THEN RunHistory(c, t.i, "A")
                   ELSE RunHistory(c, t.i + 1, "Q")
            ELSE IF t.stage = "final"
              THEN RunProbe([c EXCEPT
                     !.sources = Append(@, Source(up, Len(c.finalQuery))),
                     !.uploaded = Append(@, Source(up, Len(c.finalQuery))),
                     !.finalQuery = OffloadNotice(up)])
            ELSE IF t.part = "Q"
              THEN RunHistory([c EXCEPT
                     !.sources = Append(@, Source(up, Len(c.chatHistory[t.i].Question))),
                     !.uploaded = Append(@, Source(up, Len(c.chatHistory[t.i].Question))),
                     !.chatHistory[t.i].Question = OffloadNotice(up)], t.i, "A")
            ELSE RunHistory([c EXCEPT
                     !.sources = Append(@, Source(up, Len(c.chatHistory[t.i].Answer))),
                     !.uploaded = Append(@, Source(up, Len(c.chatHistory[t.i].Answer))),
                     !.chatHistory[t.i].Answer = OffloadNotice(up)], t.i + 1, "Q"))
  /\ UNCHANGED <<req, originalModel, relayVars, historyVars, tokenVars, variantVars>>

\* uploadFile settles for a text (lines 1617-1622, 1632-1637, 1664-1669); its
\* throw on a non-success status is caught nowhere
UploadReturns(r) ==
  /\ pc[r] = "upload"
  /\ \E up \in UploadOutcomes :
       LET c == [ctx[r] EXCEPT !.uploads = Append(@, up.ok)]
           t == c.target
       IN Apply(r,
            IF ~up.ok THEN Return(c, UncaughtError)
            ELSE IF t.stage = "final"
              THEN RunProbe([c EXCEPT
                     !.sources = Append(@, Source(up, Len(c.finalQuery))),
                     !.uploaded = Append(@, Source(up, Len(c.finalQuery))),
                     !.finalQuery = OffloadNotice(up)])
            ELSE IF t.part = "Q"
              THEN RunHistory([c EXCEPT
                     !.sources = Append(@, Source(up, Len(c.chatHistory[t.i].Question))),
                     !.uploaded = Append(@, Source(up, Len(c.chatHistory[t.i].Question))),
                     !.chatHistory[t.i].Question = OffloadNotice(up)], t.i, "A")
            ELSE RunHistory([c EXCEPT
                     !.sources = Append(@, Source(up, Len(c.chatHistory[t.i].Answer))),
                     !.uploaded = Append(@, Source(up, Len(c.chatHistory[t.i].Answer))),
                     !.chatHistory[t.i].Answer = OffloadNotice(up)], t.i + 1, "Q"))
  /\ UNCHANGED <<req, originalModel, relayVars, historyVars, tokenVars, variantVars>>

\* downloadImage settles (lines 1358-1370, 1385-1387)
DownloadReturns(r) ==
  /\ pc[r] = "download"
  /\ \E ok \in BOOLEAN :
       Apply(r, IF ok THEN Suspend("imgupload", ctx[r], <<Call("upload", "image")>>)
                      ELSE ImageFailure(ctx[r]))
  /\ UNCHANGED <<req, originalModel, relayVars, historyVars, tokenVars, variantVars>>

\* uploadFile settles for an image (lines 1387-1393)
ImageUploadReturns(r) ==
  /\ pc[r] = "imgupload"
  /\ \E up \in UploadOutcomes :
       LET c == [ctx[r] EXCEPT !.uploads = Append(@, up.ok)] IN
       Apply(r, IF ~up.ok THEN ImageFailure(c)
                ELSE RunImages([c EXCEPT
                       !.imgSources = Append(@, Source(up, Len(ImageBytes))),
                       !.uploaded = Append(@, Source(up, Len(ImageBytes)))],
                     c.imgK + 1))
  /\ UNCHANGED <<req, originalModel, relayVars, historyVars, tokenVars, variantVars>>

\* What the search endpoint answers.
UpstreamStatuses == {200, 429, 503}
UpstreamTexts == {"", "overloaded"}
\* the SSE body of a successful answer
OkFrames == <<"tokHel", "tokLo">>

\* t || "upstream error"
OrUpstreamError(t) == IF t = "" THEN "upstream error" ELSE t

\* (mutant) the probe's error response mirrors the upstream body
ProbeErrorBodyMirrored(status, text) == text

\* the body of the probe's error response (line 1741)
ProbeErrorBody(status, text) == "API returned status " \o ToString(status)

\* the status the handler gives the Response of streamOpenAIChunks (line 1778)
StreamStatus(inner) == 200

\* (mutant) the streaming branch reads the probe's body instead of fetching again
SecondFetchOnlyNonStream(stream) ==
  IF stream THEN <<>> ELSE <<Call("streamingSearch", "resp2")>>

\* the fetch of the search endpoint issued after the probe (lines 1752, 1437)
SecondFetch(stream) ==
  IF stream THEN <<Call("streamingSearch", "stream")>>
            ELSE <<Call("streamingSearch", "resp2")>>

\* reverseMap[mapModelName(originalModel)] ?? "deepseek-chat" (line 1749)
modelForRespOf(r) == reverseMapOr(mapModelName(originalModel))

\* the probe settles (lines 1736-1752, 1775, 1437)
ProbeReturns(r) ==
  /\ pc[r] = "probe"
  /\ \E status \in UpstreamStatuses, text \in UpstreamTexts :
       LET c == [ctx[r] EXCEPT !.answers = Append(@, Answer(status, text, TRUE))] IN
       Apply(r,
         IF ~Ok(status)
           THEN Return(c, Response(status, ProbeErrorBody(status, text), TRUE))
           ELSE Suspend(IF req[r].body.stream THEN "sfetch" ELSE "resp2",
                        [c EXCEPT !.modelForResp = modelForRespOf(r)],
                        SecondFetch(req[r].body.stream)))
  /\ UNCHANGED <<req, originalModel, relayVars, historyVars, tokenVars, variantVars>>

\* resp2 settles and its body is drained (lines 1752-1771)
Resp2Returns(r) ==
  /\ pc[r] = "resp2"
  /\ \E status \in UpstreamStatuses, text \in UpstreamTexts :
       LET c == [ctx[r] EXCEPT !.answers = Append(@, Answer(status, text, TRUE))] IN
       Apply(r, Return(c,
         IF ~Ok(status)
           THEN Response(status, OrUpstreamError(text), TRUE)
           ELSE [status |-> 200, body |-> "", cors |-> TRUE, kind |-> "chat.completion",
                 model |-> c.modelForResp,
                 content |-> collectLines(BodyOf(OkFrames), FALSE, <<>>).full]))
  /\ UNCHANGED <<req, originalModel, relayVars, historyVars, tokenVars, variantVars>>

\* the fetch of streamOpenAIChunks settles (lines 1437-1441, 1493-1500) and
\* the handler wraps what it returns (lines 1775-1778)
StreamFetchReturns(r) ==
  /\ pc[r] = "sfetch"
  /\ \E status \in UpstreamStatuses, text \in UpstreamTexts, hasBody \in BOOLEAN :
       LET c == [ctx[r] EXCEPT !.answers =
                   Append(@, Answer(status, IF hasBody THEN text ELSE "", hasBody))]
           streamResp ==
             IF ~Ok(status) \/ ~hasBody
               THEN Response(status, OrUpstreamError(IF hasBody THEN text ELSE ""), FALSE)
               ELSE [status |-> 200, body |-> "", cors |-> TRUE, kind |-> "event-stream",
                     model |-> c.modelForResp,
                     content |-> Concat(ChunkContents(
                        streamLines(BodyOf(OkFrames), FALSE, <<KickOff>>).enqueued))]
       IN Apply(r, Return(c,
            [streamResp EXCEPT !.status = StreamStatus(streamResp), !.cors = TRUE]))
  /\ UNCHANGED <<req, originalModel, relayVars, historyVars, tokenVars, variantVars>>

\* a fetch of the search endpoint rejects (network failure, or the 60 s
\* AbortSignal.timeout of resp2): nothing catches it
FetchFails(r) ==
  /\ pc[r] \in {"probe", "resp2", "sfetch"}
  /\ Apply(r, Return(ctx[r], UncaughtError))
  /\ UNCHANGED <<req, originalModel, relayVars, historyVars, tokenVars, variantVars>>

\* ------------------------------------------------ handleStreamingChat
\* String.prototype.trim() === ""
IsBlank(s) == \A i \in 1..Len(s) : s[i] \in Whitespace

DataSpacePrefix == <<"d","a","t","a",":"," ">>
DoneText == <<"[","D","O","N","E","]">>
ContentKey == <<"c","o","n","t","e","n","t">>
TextKey == <<"t","e","x","t">>
MessageKey == <<"m","e","s","s","a","g","e">>

\* Lines the upstream of handleStreamingChat sends (without their newline).
ChatLineContent == <<"d","a","t","a",":"," ","{","\"","c","o","n","t","e","n","t","\"",":","\"","H","e","l","\"","}">>
ChatLineText == <<"d","a","t","a",":"," ","{","\"","t","e","x","t","\"",":","\"","l","o","\"","}">>
ChatLineRaw == <<"d","a","t","a",":"," ","h","i">>
ChatLineDone == DataSpacePrefix \o DoneText
ChatLinePing == <<":"," ","p","i","n","g">>

\*   content  data: {"content":"Hel"}
\*   text     data: {"text":"lo"}
\*   raw      data: hi            (not JSON)
\*   done     data: [DONE]
\*   blank    an empty line
\*   ping     a line without the data: prefix
ChatFrameKinds == {"content", "text", "raw", "done", "blank", "ping"}

ChatLineOf(k) ==
  CASE k = "content" -> ChatLineContent
    [] k = "text"    -> ChatLineText
    [] k = "raw"     -> ChatLineRaw
    [] k = "done"    -> ChatLineDone
    [] k = "blank"   -> <<>>
    [] k = "ping"    -> ChatLinePing

ChatBodyOf(fs) == JoinLines([i \in 1..Len(fs) |-> ChatLineOf(fs[i])])

ChatFrameSeqs == UNION {[1..n -> ChatFrameKinds] : n \in 0..MaxFrames}

\* the chunk of lines 876-892 and 897-911 (id, created, model and
\* system_fingerprint play no part and are left out)
ChatChunk(text) == [kind |-> "chunk", content |-> text, finish_reason |-> "null"]

\* the chunk of lines 922-927
ErrorChunk == [kind |-> "error", content |-> <<>>, finish_reason |-> ""]

\* parsed.content || parsed.text || ""
ContentOrText(obj) ==
  IF obj.key \in {ContentKey, TextKey} /\ obj.val # <<>>
       /\ (obj.type = "number" => obj.val # <<"0">>)
    THEN obj.val ELSE <<>>

\* line 919: what is written once reader.read() has returned done
ChatEndFrames == <<DoneSentinel>>

\* (mutant) the catch block writes nothing
CatchFramesNone == <<>>

\* lines 920-928: what the catch block writes
CatchFrames == <<ErrorChunk>>

\* The for loop of lines 861-915 over the complete lines of b; stopped: the
\* break of line 869 has been taken, the lines left of this read are skipped.
RECURSIVE chatLines(_, _, _)
chatLines(b, w, stopped) ==
  LET nl == IndexOf(b, NL) IN
  IF nl < 0
    THEN [buffer |-> b, written |-> w]
    ELSE LET line == Slice2(b, 0, nl)
             rest == Slice(b, nl + 1)
         IN IF stopped \/ IsBlank(line) \/ ~StartsWith(line, DataSpacePrefix)
              THEN chatLines(rest, w, stopped)
              ELSE LET data == Slice(line, 6)
                       parsed == JsonParse(data)
                   IN IF data = DoneText
                        THEN chatLines(rest, Append(w, DoneSentinel), TRUE)
                      ELSE IF parsed.ok
                        THEN chatLines(rest, Append(w, ChatChunk(ContentOrText(parsed))), FALSE)
                        ELSE chatLines(rest, Append(w, ChatChunk(data)), FALSE)

\* -------------------------------------- handleStreamResponse (simulated)
\* what response.json() resolves to: an object with one property
Data(key, val) == [key |-> key, val |-> val]
NoData == Data(<<>>, <<>>)

BS == "\\"

\* JSON.stringify of a text without quotes or backslashes: a newline is
\* written as the two characters \n
RECURSIVE Escaped(_)
Escaped(t) ==
  IF t = <<>> THEN <<>>
  ELSE (IF Head(t) = NL THEN <<BS, "n">> ELSE <<Head(t)>>) \o Escaped(Tail(t))

\* JSON.stringify(responseData)
Stringify(d) ==
  <<"{", DQ>> \o d.key \o <<DQ, ":", DQ>> \o Escaped(d.val) \o <<DQ, "}">>

\* line 560: responseData.content || responseData.message || responseData.text || ""
ContentMapped(d) ==
  IF d.key \in {ContentKey, MessageKey, TextKey} THEN d.val ELSE <<>>

\* lines 223-236 for an object without choices
ContentFixed(d) ==
  IF d.key \in {ContentKey, MessageKey, TextKey} /\ d.val # <<>>
    THEN d.val ELSE Stringify(d)

\* characters per chunk
ChunkSizeMapped == 10
ChunkSizeFixed == 20

\* lines 239-243: content.slice(i, i + chunkSize) for i = 0, chunkSize, ...
RECURSIVE SliceChunks(_, _)
SliceChunks(t, size) ==
  IF t = <<>> THEN <<>>
  ELSE IF Len(t) <= size THEN <<t>>
  ELSE <<SubSeq(t, 1, size)>> \o SliceChunks(SubSeq(t, size + 1, Len(t)), size)

\* line 563: content.match(/.{1,10}/g) || []: the longest runs of up to size
\* characters that `.` matches, from left to right; `.` matches no line
\* terminator, so a newline belongs to no match
RECURSIVE MatchChunks(_, _)
MatchChunks(t, size) ==
  IF t = <<>> THEN <<>>
  ELSE IF Head(t) \in {NL, CR} THEN MatchChunks(Tail(t), size)
  ELSE LET stop == IF \E i \in 1..Len(t) : t[i] \in {NL, CR}
                     THEN CHOOSE i \in 1..Len(t) :
                            t[i] \in {NL, CR} /\ \A k \in 1..(i - 1) : t[k] \notin {NL, CR}
                     ELSE Len(t) + 1
           n == IF stop - 1 < size THEN stop - 1 ELSE size
       IN <<SubSeq(t, 1, n)>> \o MatchChunks(SubSeq(t, n + 1, Len(t)), size)

\* sendSSE of a content chunk, of the end marker (delta: {}, finish_reason
\* "stop")
SimChunk(text) == [kind |-> "chunk", content |-> text, finish_reason |-> "null"]
StopFrame == [kind |-> "stop", content |-> <<>>, finish_reason |-> "stop"]

\* ------------------------------------ handleStreamResponse (main.js)
\* Lines of the upstream body of main.js.
UpLineData == <<"d","a","t","a",":"," ","x","y">>
UpLineText == <<"h","e","l","l","o">>

\*   data   a line that is an SSE data line already
\*   text   any other text
\*   blank  an empty line
UpFrameKinds == {"data", "text", "blank"}

UpLineOf(k) ==
  CASE k = "data"  -> UpLineData
    [] k = "text"  -> UpLineText
    [] k = "blank" -> <<>>

UpBodyOf(fs) == JoinLines([i \in 1..Len(fs) |-> UpLineOf(fs[i])])

UpFrameSeqs == UNION {[1..n -> UpFrameKinds] : n \in 0..MaxFrames}

\* line + "\n\n" for a data line, the chunk of lines 250-262 for another
PassedOn(line) == [kind |-> "line", content |-> line, finish_reason |-> ""]
Wrapped(line) == [kind |-> "chunk", content |-> line, finish_reason |-> "null"]

\* text.split('\n'): the pieces between the newlines of t, the last one
\* (after the last newline, maybe empty) included
RECURSIVE SplitNL(_)
SplitNL(t) ==
  LET nl == IndexOf(t, NL) IN
  IF nl < 0 THEN <<t>>
  ELSE <<Slice2(t, 0, nl)>> \o SplitNL(Slice(t, nl + 1))

\* transform(chunk, controller), lines 237-266: what one call enqueues
Transformed(text) ==
  LET lines == SplitNL(text)
      kept == SelectSeq(lines, LAMBDA l : ~IsBlank(l))
  IN [i \in 1..Len(kept) |->
        IF StartsWith(kept[i], DataSpacePrefix) THEN PassedOn(kept[i])
                                                ELSE Wrapped(kept[i])]

\* ------------------------------------------------------ inbound requests
Hi == <<"h", "i">>
See == <<"s", "e", "e">>
\* n words separated by single spaces
Words(n) == [i \in 1..(2 * n - 1) |-> IF i % 2 = 1 THEN "w" ELSE SP]
\* the shortest text that reaches HistoryOffloadTokens
LongText == Words(HistoryOffloadTokens - PerMessageTokens)

User(t) == Message("user", StringContent(t))
Assistant(t) == Message("assistant", StringContent(t))
System(t) == Message("system", StringContent(t))

\* a last message with one image to upload, and image parts without a URL
\* that bring its size above MaxContextTokens
HeavyImageMessage ==
  Message("user",
    ArrayContent(<<TextPart(See), ImagePart("data")>>
                   \o [i \in 1..(MaxContextTokens \div ImageTokens) |-> ImagePart("")]))

MessageInputs ==
  { UndefinedMessages,
    ArrayMessages(<<>>),
    StringMessages(3),
    ArrayMessages(<<User(Hi)>>),
    ArrayMessages(<<System(See), User(LongText), Assistant(Hi), User(Hi)>>),
    ArrayMessages(<<User(Hi), Assistant(LongText), User(Hi)>>),
    ArrayMessages(<<User(Words(HistoryOffloadTokens - PerMessageTokens - 1)),
                    Assistant(LongText), User(Hi)>>),
    ArrayMessages(<<User(Words(MaxContextTokens - PerMessageTokens))>>),
    ArrayMessages(<<User(Words(MaxContextTokens - PerMessageTokens + 1))>>),
    ArrayMessages(<<Message("user",
        ArrayContent(<<TextPart(See), ImagePart("data"), ImagePart("http")>>))>>),
    ArrayMessages(<<Message("user", ArrayContent(<<ImagePart("baddata")>>))>>),
    ArrayMessages(<<User(Words(HistoryOffloadTokens - 1)), Assistant(LongText),
                    User(Words(HistoryOffloadTokens)), User(Hi)>>),
    ArrayMessages(<<User(LongText), Assistant(Hi), HeavyImageMessage>>) }

InvalidBody ==
  [json |-> "invalid", model |-> "", stream |-> FALSE, messages |-> UndefinedMessages]
NullBody ==
  [json |-> "null", model |-> "", stream |-> FALSE, messages |-> UndefinedMessages]
\* a JSON object; model is "" when the object has none
ObjectBody(m, st, ms) == [json |-> "object", model |-> m, stream |-> st, messages |-> ms]

Bodies ==
  {InvalidBody, NullBody}
    \cup {ObjectBody(m, st, ms) :
            m \in {"gpt-4o", "o1", "", "research", "constructor"},
            st \in BOOLEAN, ms \in MessageInputs}

\* Authorization header values: none, another scheme, "Bearer" with no space
\* after it, and a bearer token
Auths ==
  { <<>>,
    <<"B","a","s","i","c"," ","x">>,
    <<"B","e","a","r","e","r","x">>,
    <<"B","e","a","r","e","r"," ","x">> }

Requests ==
  [method : {"POST", "OPTIONS"},
   path : {"/v1/chat/completions", "/v1/models", "/"},
   auth : Auths,
   body : Bodies]

NoRequest == [method |-> "", path |-> "", auth |-> <<>>, body |-> InvalidBody]

\* chat requests that differ in model and stream only
PlainRequests ==
  [method : {"POST"},
   path : {"/v1/chat/completions"},
   auth : {<<"B","e","a","r","e","r"," ","x">>},
   body : {ObjectBody(m, st, ArrayMessages(<<User(Hi)>>)) :
             m \in {"gpt-4o", "o1"}, st \in BOOLEAN}]

HandlerIdle ==
  /\ req = [r \in Reqs |-> NoRequest]
  /\ pc = [r \in Reqs |-> "absent"]
  /\ ctx = [r \in Reqs |-> NoCtx]
  /\ calls = [r \in Reqs |-> <<>>]
  /\ resp = [r \in Reqs |-> NoResponse]
  /\ originalModel = ""

TokensIdle ==
  /\ tContent = UndefinedContent
  /\ tTokens = 0
  /\ tBefore = 0
  /\ tAdded = "none"

HistoryIdle ==
  /\ hGiven = <<>>
  /\ hMessages = <<>>
  /\ hLoop = FoldStart
  /\ hI = 0
  /\ hpc = "idle"

ChatIdle ==
  /\ chatFrames = <<>>
  /\ chatBody = <<>>
  /\ chatPos = 0
  /\ chatPc = "idle"
  /\ buffer = <<>>
  /\ written = <<>>
  /\ closeCalls = 0
  /\ chatFailure = "none"
  /\ chatCancelled = FALSE

SimIdle ==
  /\ variant = "fixed"
  /\ responseData = NoData
  /\ simContent = <<>>
  /\ chunks = <<>>
  /\ sent = 0
  /\ simEnqueued = <<>>
  /\ simPc = "idle"

TransformIdle ==
  /\ upFrames = <<>>
  /\ upBody = <<>>
  /\ upPos = 0
  /\ upCalls = 0
  /\ trEnqueued = <<>>

VariantsIdle == ChatIdle /\ SimIdle /\ TransformIdle

RelayIdle ==
  /\ mode = "collect"
  /\ frames = <<>>
  /\ body = <<>>
  /\ pos = 0
  /\ rpc = "idle"
  /\ buf = <<>>
  /\ expectData = FALSE
  /\ full = <<>>
  /\ enqueued = <<>>
  /\ streamClosed = FALSE
  /\ openAIResp = NoResp
  /\ cancelled = FALSE

\* ========================================================= specifications
\* One request at a time, over every request and every upstream answer.
Init ==
  /\ \E q \in Requests :
       /\ req = [r \in Reqs |-> IF r = 1 THEN q ELSE NoRequest]
       /\ pc = [r \in Reqs |-> IF r = 1 THEN "start" ELSE "absent"]
  /\ ctx = [r \in Reqs |-> NoCtx]
  /\ calls = [r \in Reqs |-> <<>>]
  /\ resp = [r \in Reqs |-> NoResponse]
  /\ originalModel = ""
  /\ RelayIdle
  /\ HistoryIdle
  /\ TokensIdle
  /\ VariantsIdle

Next ==
  \E r \in Reqs :
    \/ Serve(r)
    \/ ParseBody(r)
    \/ NonceReturns(r)
    \/ UploadReturns(r)
    \/ DownloadReturns(r)
    \/ ImageUploadReturns(r)
    \/ ProbeReturns(r)
    \/ Resp2Returns(r)
    \/ StreamFetchReturns(r)
    \/ FetchFails(r)

Spec == Init /\ [][Next]_vars

\* Two requests in progress at once: Deno.serve runs the handler of each as
\* an async function, and the two interleave at their awaits.
InitConc ==
  /\ req \in [Reqs -> PlainRequests]
  /\ pc = [r \in Reqs |-> "start"]
  /\ ctx = [r \in Reqs |-> NoCtx]
  /\ calls = [r \in Reqs |-> <<>>]
  /\ resp = [r \in Reqs |-> NoResponse]
  /\ originalModel = ""
  /\ RelayIdle
  /\ HistoryIdle
  /\ TokensIdle
  /\ VariantsIdle

NextConc ==
  \E r \in Reqs :
    \/ Serve(r)
    \/ ParseBody(r)
    \/ ProbeReturns(r)
    \/ Resp2Returns(r)
    \/ StreamFetchReturns(r)
    \/ FetchFails(r)

SpecConc == InitConc /\ [][NextConc]_vars

\* The relay alone, fed every upstream body in every chunking.
InitRelay ==
  /\ mode \in {"collect", "stream"}
  /\ frames \in FrameSeqs
  /\ body = BodyOf(frames)
  /\ pos = 0
  /\ rpc = IF mode = "stream" THEN "start" ELSE "reading"
  /\ buf = <<>>
  /\ expectData = FALSE
  /\ full = <<>>
  /\ enqueued = <<>>
  /\ streamClosed = FALSE
  /\ openAIResp = NoResp
  /\ cancelled = FALSE
  /\ HandlerIdle
  /\ HistoryIdle
  /\ TokensIdle
  /\ VariantsIdle

NextRelay ==
  \/ StreamStart
  \/ \E n \in 1..MaxChunk : CollectRead(n)
  \/ CollectDone
  \/ \E n \in 1..MaxChunk : StreamRead(n)
  \/ StreamDone
  \/ ReadFails
  \/ ClientCancel

SpecRelay == InitRelay /\ [][NextRelay]_vars


\* The history of every short message list, built message by message.
TextA == <<"a">>
TextB == <<"b">>
HistoryMessages ==
  {User(TextA), User(TextB), Assistant(TextA), Assistant(TextB),
   System(TextA), System(TextB), System(<<>>)}

RECURSIVE SeqsUpTo(_, _)
SeqsUpTo(S, n) ==
  IF n = 0 THEN {<<>>}
  ELSE LET shorter == SeqsUpTo(S, n - 1)
       IN shorter \cup {Append(q, x) : q \in {t \in shorter : Len(t) = n - 1}, x \in S}

InitHistory ==
  /\ hGiven \in SeqsUpTo(HistoryMessages, MaxMessages)
  /\ hMessages = <<>>
  /\ hLoop = FoldStart
  /\ hI = 0
  /\ hpc = "given"
  /\ HandlerIdle
  /\ RelayIdle
  /\ TokensIdle
  /\ VariantsIdle

NextHistory ==
  \/ HistoryConvert
  \/ HistoryStep
  \/ HistoryFinish

SpecHistory == InitHistory /\ [][NextHistory]_vars

\* countTokens of a content that grows by a character, a text part or an
\* image part at a time.
TextChars == {"w", SP, NL}
PartTexts == {<<>>, <<"w">>, <<"w", SP, "w">>}
ImageUrls == {"data", ""}

InitTokens ==
  /\ tContent \in {StringContent(<<>>), ArrayContent(<<>>)}
  /\ tTokens = countTokens(tContent)
  /\ tBefore = 0
  /\ tAdded = "none"
  /\ HandlerIdle
  /\ RelayIdle
  /\ HistoryIdle
  /\ VariantsIdle

Grown(content, added) ==
  /\ tContent' = content
  /\ tBefore' = tTokens
  /\ tTokens' = countTokens(content)
  /\ tAdded' = added
  /\ UNCHANGED <<relayVars, handlerVars, historyVars, variantVars>>

AppendText(ch) ==
  /\ tContent.kind = "string" /\ Len(tContent.text) < MaxText
  /\ Grown(StringContent(Append(tContent.text, ch)), "text")

AddTextPart(t) ==
  /\ tContent.kind = "array" /\ Len(tContent.parts) < MaxParts
  /\ Grown(ArrayContent(Append(tContent.parts, TextPart(t))), "part")

AddImagePart(u) ==
  /\ tContent.kind = "array" /\ Len(tContent.parts) < MaxParts
  /\ Grown(ArrayContent(Append(tContent.parts, ImagePart(u))), "image")

NextTokens ==
  \/ \E ch \in TextChars : AppendText(ch)
  \/ \E t \in PartTexts : AddTextPart(t)
  \/ \E u \in ImageUrls : AddImagePart(u)

SpecTokens == InitTokens /\ [][NextTokens]_vars

\* handleStreamingChat, fed every upstream answer in every chunking.
ChatFetchOutcomes == {"ok", "status", "nobody", "network"}

InitChat ==
  /\ chatFrames \in ChatFrameSeqs
  /\ chatBody = ChatBodyOf(chatFrames)
  /\ chatPos = 0
  /\ chatPc = "fetch"
  /\ buffer = <<>>
  /\ written = <<>>
  /\ closeCalls = 0
  /\ chatFailure = "none"
  /\ chatCancelled = FALSE
  /\ SimIdle
  /\ TransformIdle
  /\ HandlerIdle
  /\ RelayIdle
  /\ HistoryIdle
  /\ TokensIdle

\* The try block throws (lines 842, 847, a rejected fetch, read or write):
\* the catch block writes the error chunk and the finally block calls
\* writer.close(). Once the client has cancelled the readable side, the
\* writable side is errored: the write and the close both reject.
ChatThrows(why) ==
  /\ chatFailure' = why
  /\ written' = IF chatCancelled THEN written ELSE written \o CatchFrames
  /\ closeCalls' = closeCalls + 1
  /\ chatPc' = IF chatCancelled THEN "rejected" ELSE "closed"

\* await fetch(TARGET_API_URL, ...) settles (lines 826-848)
ChatFetchReturns ==
  /\ chatPc = "fetch"
  /\ \E outcome \in ChatFetchOutcomes :
       IF outcome = "ok"
         THEN /\ chatPc' = "reading"
              /\ UNCHANGED <<written, closeCalls, chatFailure>>
         ELSE ChatThrows(outcome)
  /\ UNCHANGED <<chatFrames, chatBody, chatPos, buffer, chatCancelled, simVars,
                 transformVars, relayVars, handlerVars, historyVars, tokenVars>>

\* One pass of the while loop of lines 853-916: reader.read() delivers the
\* next n characters.
ChatRead(n) ==
  /\ chatPc = "reading"
  /\ chatPos + n <= Len(chatBody)
  /\ LET value == SubSeq(chatBody, chatPos + 1, chatPos + n)
         r == chatLines(buffer \o value, written, FALSE)
     IN IF chatCancelled /\ r.written # written
          THEN /\ ChatThrows("write")
               /\ UNCHANGED buffer
          ELSE /\ buffer' = r.buffer
               /\ written' = r.written
               /\ UNCHANGED <<closeCalls, chatFailure, chatPc>>
  /\ chatPos' = chatPos + n
  /\ UNCHANGED <<chatFrames, chatBody, chatCancelled, simVars, transformVars,
                 relayVars, handlerVars, historyVars, tokenVars>>

\* reader.read() returns done: line 919, then the finally block
ChatReadDone ==
  /\ chatPc = "reading"
  /\ chatPos = Len(chatBody)
  /\ IF chatCancelled
       THEN ChatThrows("write")
       ELSE /\ written' = written \o ChatEndFrames
            /\ closeCalls' = closeCalls + 1
            /\ chatPc' = "closed"
            /\ UNCHANGED chatFailure
  /\ UNCHANGED <<chatFrames, chatBody, chatPos, buffer, chatCancelled, simVars,
                 transformVars, relayVars, handlerVars, historyVars, tokenVars>>

\* await reader.read() rejects: the upstream connection breaks
ChatReadFails ==
  /\ chatPc = "reading"
  /\ ChatThrows("read")
  /\ UNCHANGED <<chatFrames, chatBody, chatPos, buffer, chatCancelled, simVars,
                 transformVars, relayVars, handlerVars, historyVars, tokenVars>>

\* the client cancels stream.readable
ChatCancel ==
  /\ chatPc \in {"fetch", "reading"}
  /\ ~chatCancelled
  /\ chatCancelled' = TRUE
  /\ UNCHANGED <<chatFrames, chatBody, chatPos, chatPc, buffer, written, closeCalls,
                 chatFailure, simVars, transformVars, relayVars, handlerVars,
                 historyVars, tokenVars>>

\* a pending fetch or read settles
ChatSettles ==
  \/ ChatFetchReturns
  \/ \E n \in 1..MaxChunk : ChatRead(n)
  \/ ChatReadDone
  \/ ChatReadFails

NextChat ==
  \/ ChatSettles
  \/ ChatCancel

SpecChat == InitChat /\ [][NextChat]_vars

\* Every fetch and every read of the upstream body settles in the end: a
\* pending fetch returns, and a pending read delivers at least one more
\* character, returns done or rejects.
ChatDelivers ==
  \/ ChatFetchReturns
  \/ ChatReadDone
  \/ ChatReadFails
  \/ ChatRead(1)

SpecChatLive == SpecChat /\ WF_vars(ChatDelivers)

\* The chunk-simulating handleStreamResponse variants, fed every upstream
\* answer.
MaxContent == 22
SimFetchOutcomes == {"json", "status", "invalid", "network"}

\* texts of up to n characters with at most one newline
SimTexts(n) ==
  {[i \in 1..len |-> "a"] : len \in 0..n}
    \cup {[i \in 1..len |-> IF i = p THEN NL ELSE "a"] : len \in 1..n, p \in 1..n}

SimKeys == {ContentKey, MessageKey, TextKey, <<"i", "d">>}

InitSim ==
  /\ variant \in {"mapped", "fixed"}
  /\ responseData \in {Data(k, v) : k \in SimKeys, v \in SimTexts(MaxContent)}
  /\ simContent = <<>>
  /\ chunks = <<>>
  /\ sent = 0
  /\ simEnqueued = <<>>
  /\ simPc = "fetch"
  /\ ChatIdle
  /\ TransformIdle
  /\ HandlerIdle
  /\ RelayIdle
  /\ HistoryIdle
  /\ TokensIdle

\* The for loop from chunk k + 1 on, up to its next setTimeout; after the
\* last chunk the end marker, the sentinel and controller.close()
\* (lines 245-274, 565-593).
SimSend(cs, k) ==
  IF k < Len(cs)
    THEN /\ simEnqueued' = Append(simEnqueued, SimChunk(cs[k + 1]))
         /\ sent' = k + 1
         /\ simPc' = "sending"
    ELSE /\ simEnqueued' = simEnqueued \o <<StopFrame, DoneSentinel>>
         /\ sent' = k
         /\ simPc' = "closed"

\* await fetch(UPSTREAM_URL, ...) and await response.json() settle
\* (lines 202-243, 550-563). Only the fixed variant looks at response.ok.
SimFetchReturns ==
  /\ simPc = "fetch"
  /\ \E outcome \in SimFetchOutcomes :
       IF outcome \in {"invalid", "network"} \/ (outcome = "status" /\ variant = "fixed")
         THEN /\ simPc' = "errored"
              /\ UNCHANGED <<simContent, chunks, sent, simEnqueued>>
         ELSE LET c == IF variant = "fixed" THEN ContentFixed(responseData)
                                            ELSE ContentMapped(responseData)
                  cs == IF variant = "fixed" THEN SliceChunks(c, ChunkSizeFixed)
                                             ELSE MatchChunks(c, ChunkSizeMapped)
              IN /\ simContent' = c
                 /\ chunks' = cs
                 /\ SimSend(cs, 0)
  /\ UNCHANGED <<variant, responseData, chatVars, transformVars, relayVars,
                 handlerVars, historyVars, tokenVars>>

\* the setTimeout after a chunk fires (lines 257, 576)
SimTimeout ==
  /\ simPc = "sending"
  /\ SimSend(chunks, sent)
  /\ UNCHANGED <<variant, responseData, simContent, chunks, chatVars, transformVars,
                 relayVars, handlerVars, historyVars, tokenVars>>

NextSim ==
  \/ SimFetchReturns
  \/ SimTimeout

SpecSim == InitSim /\ [][NextSim]_vars

\* The TransformStream relay of main.js, fed every upstream body in every
\* chunking into up to MaxCalls network chunks.
MaxCalls == 3

InitTransform ==
  /\ upFrames \in UpFrameSeqs
  /\ upBody = UpBodyOf(upFrames)
  /\ upPos = 0
  /\ upCalls = 0
  /\ trEnqueued = <<>>
  /\ ChatIdle
  /\ SimIdle
  /\ HandlerIdle
  /\ RelayIdle
  /\ HistoryIdle
  /\ TokensIdle

\* transform(chunk, controller) is called with the next n characters
TransformCall(n) ==
  /\ upCalls < MaxCalls
  /\ upPos + n <= Len(upBody)
  /\ upCalls' = upCalls + 1
  /\ trEnqueued' = trEnqueued \o Transformed(SubSeq(upBody, upPos + 1, upPos + n))
  /\ upPos' = upPos + n
  /\ UNCHANGED <<upFrames, upBody, chatVars, simVars, relayVars, handlerVars,
                 historyVars, tokenVars>>

NextTransform == \E n \in 1..MaxChunk : TransformCall(n)

SpecTransform == InitTransform /\ [][NextTransform]_vars

\* ======================================================== relay properties
\* Well-formed token events: event name youChatToken, data line a JSON object.
TokenFrameKinds == {"tokHel", "tokLo", "tokEmpty"}
OnlyTokenFrames == \A i \in 1..Len(frames) : frames[i] \in TokenFrameKinds

FrameLen(k) == Len(JoinLines(FrameLines(k)))
\* characters of the frame up to and including the newline of its data line
FrameDataEnd(k) == Len(JoinLines(SubSeq(FrameLines(k), 1, 2)))

\* Tokens of the token frames whose data line lies, newline included, within
\* the first p characters of the body made of the frames fs.
RECURSIVE ArrivedTokens(_, _)
ArrivedTokens(fs, p) ==
  IF fs = <<>> \/ FrameDataEnd(Head(fs)) > p
    THEN <<>>
    ELSE <<FrameToken(Head(fs))>> \o ArrivedTokens(Tail(fs), p - FrameLen(Head(fs)))

\* The first p characters of s up to the last newline among them.
CompleteLines(s, p) ==
  LET N == {i \in 1..p : s[i] = NL}
  IN IF N = {} THEN <<>> ELSE SubSeq(s, 1, CHOOSE i \in N : \A k \in N : k <= i)

\* C1 (as stated): when the upstream stream ends and the client stream is
\* closed, the last thing written to the client is the data: [DONE] sentinel.
C1_DoneBeforeClose ==
  streamClosed => (enqueued # <<>> /\ enqueued[Len(enqueued)] = DoneSentinel)

\* C1 (amended): when the upstream stream ends the client stream is closed
\* right after the last content chunk; it holds the kick-off comment followed
\* by content chunks only, and the [DONE] sentinel is never written.
C1_ClosedWithoutDone ==
  /\ \A i \in 1..Len(enqueued) : enqueued[i] # DoneSentinel
  /\ streamClosed =>
       /\ enqueued[1] = KickOff
       /\ \A i \in 2..Len(enqueued) : IsChunk(enqueued[i])

C1_Witness ==
  streamClosed /\ ChunkContents(enqueued) = <<Hel, Lo>>

\* C2 (as stated): for an upstream body of token-event frames relayed to a
\* client that is still reading, the content chunks written so far are
\* exactly the tokens, one chunk per frame and in order, of the frames whose
\* data line has fully arrived.
C2_OneChunkPerFrame ==
  (mode = "stream" /\ OnlyTokenFrames /\ ~cancelled) =>
    ChunkContents(enqueued) = ArrivedTokens(frames, pos)

\* C2 (amended): for an upstream body of token-event frames relayed to a
\* client that is still reading, the content chunks written so far are
\* exactly the non-empty tokens, one chunk per frame with a non-empty token
\* and in order, of the frames whose data line has fully arrived (newline
\* included); a frame whose token is the empty string yields no chunk.
C2_OneChunkPerNonEmptyToken ==
  (mode = "stream" /\ OnlyTokenFrames /\ ~cancelled) =>
    ChunkContents(enqueued) = SelectSeq(ArrivedTokens(frames, pos), NonEmpty)

\* two frames, the second one arrived only in part: one chunk so far
C2_Witness ==
  /\ mode = "stream" /\ frames = <<"tokHel", "tokLo">>
  /\ pos > FrameLen("tokHel") /\ pos < FrameLen("tokHel") + FrameDataEnd("tokLo")
  /\ ChunkContents(enqueued) = <<Hel>>

\* C3 (as stated): the non-streaming response is one completion object whose
\* content is the concatenation, in order, of the tokens of the frames whose
\* event name is youChatToken, frames of every other event name contributing
\* nothing, with finish_reason "stop".
C3_ContentIsTokenFrames ==
  rpc = "built" =>
    openAIResp =
      [object |-> "chat.completion",
       content |-> Concat([i \in 1..Len(frames) |->
                     IF FrameEventName(frames[i]) = "youChatToken"
                       THEN FrameToken(frames[i]) ELSE <<>>]),
       finish_reason |-> "stop"]

C11_ErrorFrameThenDone ==
  (mode = "stream" /\ rpc = "errored" /\ ~cancelled) =>
    /\ \E i \in 1..Len(enqueued) : enqueued[i].kind = "error"
    /\ enqueued[Len(enqueued)] = DoneSentinel

\* C12 (as stated): in streaming mode, once the client has cancelled the
\* response stream the relay reads nothing more of the upstream body.
C12_NoReadAfterCancel ==
  [][(mode = "stream" /\ cancelled) => pos' = pos]_vars

\* ====================================================== history properties
TextOf(m) == extractTextContent(m.content)
TextsOf(ms) == [i \in 1..Len(ms) |-> TextOf(ms[i])]
AllButLast(ms) == SubSeq(ms, 1, Len(ms) - 1)
OnlyChat(ms) == \A i \in 1..Len(ms) : ms[i].role \in {"user", "assistant"}
Alternating(ms) ==
  OnlyChat(ms) /\ \A i \in 1..(Len(ms) - 1) : ms[i].role # ms[i + 1].role
IsSystem(m) == m.role = "system"
NotSystem(m) == m.role # "system"
Built == hpc = "built"
History == hLoop.chatHistory

\* C13 (as stated): N strictly alternating user/assistant messages, N even,
\* give a history of exactly N/2 turns, each with a non-empty question and a
\* non-empty answer.
C13_HalfAsManyCompleteTurns ==
  (Built /\ Alternating(hGiven) /\ Len(hGiven) % 2 = 0) =>
    /\ Len(History) = Len(hGiven) \div 2
    /\ \A i \in 1..Len(History) :
         History[i].Question # <<>> /\ History[i].Answer # <<>>

\* C13 (amended): N strictly alternating user/assistant messages with
\* non-empty texts give, for N even, a history of exactly N/2 turns of which
\* one is incomplete: the last turn has no answer when the list starts with
\* a user message, the first turn has no question when it starts with an
\* assistant message. Every turn has a question and an answer exactly when
\* the list starts with a user message and N is odd, and the turns are then
\* (N-1)/2.
C13_TurnsOfAlternating ==
  (/\ Built /\ Alternating(hGiven) /\ Len(hGiven) >= 2
   /\ \A i \in 1..Len(hGiven) : TextOf(hGiven[i]) # <<>>) =>
    LET N == Len(hGiven)
        k == Len(History)
        userFirst == hGiven[1].role = "user"
        lastOpen == (userFirst /\ N % 2 = 0) \/ (~userFirst /\ N % 2 = 1)
    IN /\ k = IF userFirst THEN N \div 2 ELSE (N + 1) \div 2
       /\ \A i \in 1..k :
            /\ (History[i].Question = <<>>) <=> (~userFirst /\ i = 1)
            /\ (History[i].Answer = <<>>) <=> (lastOpen /\ i = k)

\* four alternating messages: two turns, the second one without an answer
C13_Witness ==
  /\ Built
  /\ hGiven = <<User(TextA), Assistant(TextB), User(TextB), Assistant(TextA)>>
  /\ History = <<QA(TextA, TextB), QA(TextB, <<>>)>>

\* the questions and answers of a history, in order
RECURSIVE TurnTexts(_)
TurnTexts(h) ==
  IF h = <<>> THEN <<>>
  ELSE <<Head(h).Question, Head(h).Answer>> \o TurnTexts(Tail(h))

\* C14 (as stated): for every sequence of user and assistant messages the
\* texts of all messages but the last are found, in their order and joined
\* by newlines within a run of one role, in the questions and answers of the
\* history.
C14_NoTextDropped ==
  (Built /\ OnlyChat(hGiven)) =>
    JoinNL(SelectSeq(TurnTexts(History), NonEmpty))
      = JoinNL(TextsOf(AllButLast(hGiven)))

RECURSIVE DropLeadingEmpty(_)
DropLeadingEmpty(ts) ==
  IF ts # <<>> /\ Head(ts) = <<>> THEN DropLeadingEmpty(Tail(ts)) ELSE ts

\* C15 (as stated): with a system message in the input the output is one
\* user message holding the newline-join of all system texts, then the
\* other messages in order; with none the output is the input.
C15_SystemJoined ==
  hpc \in {"loop", "built"} =>
    hMessages =
      IF \E i \in 1..Len(hGiven) : IsSystem(hGiven[i])
        THEN <<User(JoinNL(TextsOf(SelectSeq(hGiven, IsSystem))))>>
               \o SelectSeq(hGiven, NotSystem)
        ELSE hGiven

\* C15 (amended): the output is the non-system messages in their order,
\* preceded, when some system message has a non-empty text, by one user
\* message holding the newline-join of the system texts from the first
\* non-empty one on; when every system text is empty, or there is no system
\* message, nothing is put in front.
C15_SystemTextJoined ==
  hpc \in {"loop", "built"} =>
    LET texts == DropLeadingEmpty(TextsOf(SelectSeq(hGiven, IsSystem)))
    IN hMessages =
         (IF texts # <<>> THEN <<User(JoinNL(texts))>> ELSE <<>>)
           \o SelectSeq(hGiven, NotSystem)

\* two system messages around a user message
C15_Witness ==
  /\ hpc = "loop"
  /\ hGiven = <<System(TextB), User(TextA), System(TextA)>>
  /\ hMessages = <<User(TextB \o <<NL>> \o TextA), User(TextA)>>

\* user messages, one assistant message, then the last message
UsersThenAnswer(ms) ==
  /\ Len(ms) >= 3
  /\ ms[Len(ms) - 1].role = "assistant"
  /\ \A i \in 1..(Len(ms) - 2) : ms[i].role = "user"

\* C16: when the messages after system folding are user messages, one
\* assistant message and the last message, the history is the single turn
\* whose question is the user texts joined by newlines in their order and
\* whose answer is the assistant text; the last message is no part of it.
\* For [system A, user B, assistant C, user D] the turn is {"A\nB", "C"}.
\* More generally, when no assistant message follows another and the first
\* message is a user message, every run of user messages among all but the
\* last is one question: the turns hold all the texts in order, and there
\* are as many turns as runs of user messages.
C16_UserRunIsOneQuestion ==
  /\ (Built /\ UsersThenAnswer(hMessages)) =>
       LET n == Len(hMessages)
       IN History = <<QA(JoinNL(TextsOf(SubSeq(hMessages, 1, n - 2))),
                         TextOf(hMessages[n - 1]))>>
  /\ (/\ Built /\ OnlyChat(hMessages) /\ Len(hMessages) >= 2
      /\ hMessages[1].role = "user"
      /\ \A i \in 1..(Len(hMessages) - 1) :
           ~(hMessages[i].role = "assistant" /\ hMessages[i + 1].role = "assistant")) =>
       LET past == AllButLast(hMessages)
           runs == {i \in 1..Len(past) :
                      past[i].role = "user" /\ (i = 1 \/ past[i - 1].role = "assistant")}
       IN /\ Len(History) = Cardinality(runs)
          /\ JoinNL(SelectSeq(TurnTexts(History), NonEmpty)) = JoinNL(TextsOf(past))

C16_Witness ==
  /\ Built
  /\ hGiven = <<System(TextA), User(TextB), Assistant(TextA), User(TextB)>>
  /\ hMessages = <<User(TextA), User(TextB), Assistant(TextA), User(TextB)>>
  /\ History = <<QA(TextA \o <<NL>> \o TextB, TextA)>>

\* ====================================================== handler properties
IsSearch(c) == c.api = "streamingSearch"
SearchCalls(r) == SelectSeq(calls[r], IsSearch)
IsChat(r) == req[r].method = "POST" /\ req[r].path \in ChatPaths
HasBearer(r) == StartsWith(req[r].auth, BearerPrefix)
Completed(r) == pc[r] = "done" /\ resp[r].kind \in {"chat.completion", "event-stream"}
\* the answer of the search endpoint that ended the request
LastAnswer(r) == ctx[r].answers[Len(ctx[r].answers)]

\* C5 (as stated): the model field of a response is the external name of the
\* model of the same request, whatever other requests are in progress.
C5_ModelOfOwnRequest ==
  \A r \in Reqs :
    Completed(r) => resp[r].model = reverseMapOr(mapModelName(req[r].body.model))

\* C6: a chat request whose Authorization header does not start with
\* "Bearer " issues no outbound call at any time and is answered 401.
C6_Unauthorized401 ==
  \A r \in Reqs :
    (IsChat(r) /\ ~HasBearer(r)) =>
      /\ calls[r] = <<>>
      /\ pc[r] \in {"start", "done"}
      /\ pc[r] = "done" => resp[r].status = 401

\* a request with a well-formed body and a header of another scheme
C6_Witness ==
  \E r \in Reqs :
    /\ IsChat(r) /\ req[r].auth = <<"B","e","a","r","e","r","x">>
    /\ req[r].body = ObjectBody("gpt-4o", FALSE, ArrayMessages(<<User(Hi)>>))
    /\ pc[r] = "done" /\ resp[r].status = 401

\* C7 (as stated): an authenticated chat request whose body is not JSON, not
\* an object, or has no non-empty messages list is answered 400 and issues no
\* outbound call.
InvalidChatBody(b) ==
  \/ b.json # "object"
  \/ b.messages.kind # "array"
  \/ b.messages.elems = <<>>
C7_InvalidBody400 ==
  \A r \in Reqs :
    (IsChat(r) /\ HasBearer(r) /\ InvalidChatBody(req[r].body)) =>
      /\ calls[r] = <<>>
      /\ pc[r] = "done" => resp[r].status = 400

\* C8 (as stated): in non-streaming mode a non-success answer of the search
\* endpoint is passed on with its status and its body, and ends the request.
C8_MirrorsStatusAndBody ==
  \A r \in Reqs :
    (pc[r] = "done" /\ ~req[r].body.stream /\ ctx[r].answers # <<>>
       /\ ~Ok(LastAnswer(r).status)) =>
      /\ resp[r].status = LastAnswer(r).status
      /\ resp[r].body = LastAnswer(r).text

\* C8 (amended): in non-streaming mode a non-success answer of the search
\* endpoint ends the request (no further call) and is passed on with its
\* status; the body is "API returned status <status>" when the probe failed,
\* and the upstream body, or "upstream error" when that is empty, when the
\* second fetch failed.
C8_MirrorsStatus ==
  \A r \in Reqs :
    (~req[r].body.stream /\ ctx[r].answers # <<>> /\ ~Ok(LastAnswer(r).status)) =>
      /\ pc[r] = "done"
      /\ Len(SearchCalls(r)) = Len(ctx[r].answers)
      /\ resp[r].status = LastAnswer(r).status
      /\ resp[r].body =
           IF Len(ctx[r].answers) = 1
             THEN "API returned status " \o ToString(LastAnswer(r).status)
             ELSE IF LastAnswer(r).text = "" THEN "upstream error"
             ELSE LastAnswer(r).text

\* the probe is answered 503 with a body
C8_Witness ==
  \E r \in Reqs :
    /\ pc[r] = "done" /\ ~req[r].body.stream
    /\ ctx[r].answers = <<Answer(503, "overloaded", TRUE)>>
    /\ resp[r].status = 503

\* C9 (as stated): in streaming mode, when the fetch used for relaying is
\* answered with a non-success status or without a body, the client gets the
\* upstream status and body, never status 200.
C9_StreamErrorStatus ==
  \A r \in Reqs :
    (pc[r] = "done" /\ req[r].body.stream /\ Len(ctx[r].answers) = 2
       /\ (~Ok(LastAnswer(r).status) \/ ~LastAnswer(r).hasBody)) =>
      /\ resp[r].status # 200
      /\ ~Ok(LastAnswer(r).status) => resp[r].status = LastAnswer(r).status

\* C10 (as stated): a request issues at most one call to the search endpoint.
C10_OneSearchCall ==
  \A r \in Reqs : Len(SearchCalls(r)) <= 1

\* C10 (amended): a request that reaches the upstream calls the search
\* endpoint once as a probe and, when the probe is answered with a success
\* status, exactly once more for the answer it relays, in non-streaming and
\* in streaming mode alike: two calls when the probe succeeds, one when it
\* fails.
C10_ProbeThenOneFetch ==
  \A r \in Reqs :
    LET n == Len(SearchCalls(r)) IN
    /\ n <= 2
    /\ n >= 1 => SearchCalls(r)[1] = Call("streamingSearch", "probe")
    /\ n = 2 => SearchCalls(r)[2] =
                  Call("streamingSearch", IF req[r].body.stream THEN "stream" ELSE "resp2")
    /\ (pc[r] = "done" /\ n >= 1) =>
         n = IF ctx[r].answers # <<>> /\ Ok(ctx[r].answers[1].status) THEN 2 ELSE 1

\* a streamed answer: the probe and the fetch of streamOpenAIChunks
C10_Witness ==
  \E r \in Reqs :
    /\ pc[r] = "done" /\ req[r].body.stream /\ resp[r].kind = "event-stream"
    /\ Len(SearchCalls(r)) = 2

\* ====================================================== offload properties
Range(q) == {q[i] : i \in 1..Len(q)}
\* the messages of request r after line 1570, and the history built of them
MessagesOf(r) == convertSystemToUserMessages(req[r].body.messages)
HistoryOf(r) == buildChatHistory(MessagesOf(r))
\* request r has sent its probe: the history loop and the handling of the
\* last message are behind it
ProbeSent(r) == Call("streamingSearch", "probe") \in Range(calls[r])
\* t is the text put in place of an uploaded text
IsNotice(t) ==
  \E n \in UploadNames : t = OffloadPhrase \o StripTxt(n) \o DotTxt
WordsOf(t) == WordCount(t)
Estimate(t) == WordCount(t) + PerMessageTokens
PartsOf(h) == {<<i, p>> : i \in 1..Len(h), p \in {"Q", "A"}}
PartText(h, ip) == IF ip[2] = "Q" THEN h[ip[1]].Question ELSE h[ip[1]].Answer
UploadsTagged(r, tags) ==
  Len(SelectSeq(calls[r], LAMBDA c : c.api = "upload" /\ c.tag \in tags))

\* C17 (as stated): with the size of a text taken as its whitespace-split
\* word count, a history question or answer of 29 words is left as it is and
\* one of 30 words is replaced by a back-reference.
C17_OffloadAtThirtyWords ==
  \A r \in Reqs :
    ProbeSent(r) =>
      \A ip \in PartsOf(HistoryOf(r)) :
        LET t == PartText(HistoryOf(r), ip) IN
        /\ WordsOf(t) = HistoryOffloadTokens - 1 => PartText(ctx[r].chatHistory, ip) = t
        /\ WordsOf(t) = HistoryOffloadTokens => IsNotice(PartText(ctx[r].chatHistory, ip))

\* C17 (amended): with the size of a text taken as its word count plus the
\* per-message overhead of 2, a history question or answer of size 29 or
\* less is left as it is and uploads nothing, and one of size 30 or more is
\* uploaded and replaced by a back-reference.
C17_OffloadAtThirty ==
  \A r \in Reqs :
    ProbeSent(r) =>
      LET h == HistoryOf(r)
          big == {ip \in PartsOf(h) : Estimate(PartText(h, ip)) >= HistoryOffloadTokens}
      IN /\ Len(ctx[r].chatHistory) = Len(h)
         /\ \A ip \in PartsOf(h) :
              IF ip \in big
                THEN IsNotice(PartText(ctx[r].chatHistory, ip))
                ELSE PartText(ctx[r].chatHistory, ip) = PartText(h, ip)
         /\ UploadsTagged(r, {"Q", "A"}) = Cardinality(big)

\* a question of size 29 kept beside an answer of size 30 replaced
C17_Witness ==
  \E r \in Reqs :
    /\ ProbeSent(r) /\ Len(HistoryOf(r)) = 1
    /\ Estimate(HistoryOf(r)[1].Question) = HistoryOffloadTokens - 1
    /\ ctx[r].chatHistory[1].Question = HistoryOf(r)[1].Question
    /\ Estimate(HistoryOf(r)[1].Answer) = HistoryOffloadTokens
    /\ IsNotice(ctx[r].chatHistory[1].Answer)

\* countTokensForMessages([lastMessage]) of request r
LastTokensOf(r) ==
  LET ms == MessagesOf(r).elems IN countTokensForMessages(<<ms[Len(ms)]>>)
FinalOffloaded(r) == UploadsTagged(r, {"final"}) = 1

\* C18 (as stated): the last message is uploaded exactly when its estimate
\* is greater than or equal to the ceiling 2000.
C18_FinalOffloadAtCeiling ==
  \A r \in Reqs :
    ProbeSent(r) => (FinalOffloaded(r) <=> LastTokensOf(r) >= MaxContextTokens)

\* C18 (amended): the last message is uploaded exactly when its estimate
\* (word count, plus 85 per image part, plus 2) is strictly greater than the
\* ceiling 2000: at 2000 it is sent as it is, at 2001 it is uploaded and
\* replaced by a back-reference.
C18_FinalOffloadAboveCeiling ==
  \A r \in Reqs :
    ProbeSent(r) =>
      /\ UploadsTagged(r, {"final"}) = (IF LastTokensOf(r) > MaxContextTokens THEN 1 ELSE 0)
      /\ IsNotice(ctx[r].finalQuery) <=> LastTokensOf(r) > MaxContextTokens

\* a last message of exactly 2000 goes to the probe as it is
C18_Witness ==
  \E r \in Reqs :
    /\ ProbeSent(r) /\ LastTokensOf(r) = MaxContextTokens
    /\ ~FinalOffloaded(r)
    /\ ctx[r].finalQuery = Words(MaxContextTokens - PerMessageTokens)

\* the texts request r has put in place of uploaded texts
Notices(r) ==
  {t \in {PartText(ctx[r].chatHistory, ip) : ip \in PartsOf(ctx[r].chatHistory)}
          \cup {ctx[r].finalQuery} :
     StartsWith(t, OffloadPhrase)}
EndsWith(t, e) ==
  Len(t) >= Len(e) /\ SubSeq(t, Len(t) - Len(e) + 1, Len(t)) = e

\* C19 (as stated): the text put in place of an uploaded text is the fixed
\* phrase followed by the user filename of the upload with its extension
\* stripped.
C19_NoticeWithoutExtension ==
  \A r \in Reqs :
    \A t \in Notices(r) :
      \E u \in Range(ctx[r].sources) : t = OffloadPhrase \o StripTxt(u.user_filename)

\* C19 (amended): the text put in place of an uploaded text is the fixed
\* phrase, then the user filename of the upload with a trailing ".txt" (in
\* any case) removed, then ".txt": the back-reference always ends in ".txt".
C19_NoticeEndsInTxt ==
  \A r \in Reqs :
    \A t \in Notices(r) :
      /\ EndsWith(t, DotTxt)
      /\ \E u \in Range(ctx[r].sources) :
           t = OffloadPhrase \o StripTxt(u.user_filename) \o DotTxt

\* an upload stored as "u.TXT" is referred to as "u.txt"
C19_Witness ==
  \E r \in Reqs :
    /\ ProbeSent(r)
    /\ \E u \in Range(ctx[r].sources) : u.user_filename = <<"u", ".", "T", "X", "T">>
    /\ OffloadPhrase \o <<"u">> \o DotTxt \in Notices(r)

TextTags == {"Q", "A", "final"}

\* C20: every upload of a text comes right after a nonce request for the
\* same text, and every nonce request that has settled, whether it succeeded
\* or failed, is followed by the upload: a failed nonce request ends nothing.
C20_NonceThenUpload ==
  \A r \in Reqs :
    LET cs == calls[r] IN
    \A i \in 1..Len(cs) :
      /\ (cs[i].api = "upload" /\ cs[i].tag \in TextTags) =>
           (i > 1 /\ cs[i - 1] = Call("get_nonce", cs[i].tag))
      /\ cs[i].api = "get_nonce" =>
           IF i = Len(cs) THEN pc[r] = "nonce"
                          ELSE cs[i + 1] = Call("upload", cs[i].tag)

\* a request whose nonce request failed has uploaded and been answered
C20_Witness ==
  \E r \in Reqs :
    /\ ~ctx[r].nonceOk
    /\ UploadsTagged(r, TextTags) >= 1
    /\ Completed(r)

\* ======================================================= request properties
UploadTags == {"Q", "A", "final", "image"}
UploadCalls(r) == SelectSeq(calls[r], LAMBDA c : c.api = "upload")
IsPrefix(a, b) == Len(a) <= Len(b) /\ a = SubSeq(b, 1, Len(a))

\* C21: when an upload of a request has returned a non-success status, it is
\* the last upload of the request and the last call of all: no upload
\* follows it, none repeats it, no search call is issued, and the request
\* has ended with an error response.
C21_FailedUploadEndsRequest ==
  \A r \in Reqs :
    \A i \in 1..Len(ctx[r].uploads) :
      ~ctx[r].uploads[i] =>
        /\ i = Len(ctx[r].uploads)
        /\ Len(UploadCalls(r)) = i
        /\ calls[r][Len(calls[r])].api = "upload"
        /\ SearchCalls(r) = <<>>
        /\ pc[r] = "done"
        /\ resp[r].status = 500
        /\ resp[r].kind = "text"

\* the second upload of a request fails
C21_Witness ==
  \E r \in Reqs :
    /\ ctx[r].uploads = <<TRUE, FALSE>>
    /\ pc[r] = "done" /\ resp[r].status = 500

\* the uploads the offload loop makes for the history h, in its order
RECURSIVE HistoryUploads(_)
HistoryUploads(h) ==
  IF h = <<>> THEN <<>>
  ELSE (IF Estimate(Head(h).Question) >= HistoryOffloadTokens
          THEN <<[tag |-> "Q", size |-> Len(Head(h).Question)]>> ELSE <<>>)
       \o (IF Estimate(Head(h).Answer) >= HistoryOffloadTokens
             THEN <<[tag |-> "A", size |-> Len(Head(h).Answer)]>> ELSE <<>>)
       \o HistoryUploads(Tail(h))

\* the uploads request r is to make: the history turns in ascending order,
\* question before answer, then the images of the last message and its text
ExpectedUploads(r) ==
  LET ms == MessagesOf(r).elems
      parts == ms[Len(ms)].content.parts
      images == SelectSeq(parts, LAMBDA p : p.type = "image_url" /\ p.url # "")
  IN HistoryUploads(HistoryOf(r))
       \o [i \in 1..Len(images) |-> [tag |-> "image", size |-> Len(ImageBytes)]]
       \o (IF LastTokensOf(r) > MaxContextTokens
             THEN <<[tag |-> "final", size |-> 0]>> ELSE <<>>)

\* C22: the uploads a request has started are, in number and in order, the
\* first ones of the uploads it is to make (history turns in ascending
\* index, question before answer, then those of the last message), every one
\* of them but the last has settled, and the last is in flight exactly while
\* the handler awaits it.
C22_UploadsInTurnOrder ==
  \A r \in Reqs :
    UploadCalls(r) # <<>> =>
      LET started == UploadCalls(r)
          expected == ExpectedUploads(r)
          inFlight == Len(started) - Len(ctx[r].uploads)
      IN /\ IsPrefix([i \in 1..Len(started) |-> started[i].tag],
                     [i \in 1..Len(expected) |-> expected[i].tag])
         /\ inFlight \in {0, 1}
         /\ inFlight = 1 <=> pc[r] \in {"upload", "imgupload"}
         /\ \A i \in 1..Len(ctx[r].uploads) :
              (ctx[r].uploads[i] /\ expected[i].tag \in {"Q", "A"}) =>
                ctx[r].sources[i].size_bytes = expected[i].size

\* a history question, an image and the text of the last message, in turn
C22_Witness ==
  \E r \in Reqs :
    /\ pc[r] = "upload"
    /\ [i \in 1..Len(UploadCalls(r)) |-> UploadCalls(r)[i].tag] = <<"Q", "image", "final">>
    /\ ctx[r].uploads = <<TRUE, TRUE>>

\* C23: the search request carries the sources parameter exactly when the
\* request has uploaded something, and the parameter then holds one entry
\* for each upload, offloaded texts and images in the one list.
C23_SourcesIffUploaded ==
  \A r \in Reqs :
    ProbeSent(r) =>
      /\ ctx[r].params.hasSources <=> Len(ctx[r].uploads) > 0
      /\ Len(ctx[r].params.sources) = Len(ctx[r].uploads)
      /\ Len(UploadCalls(r)) = Len(ctx[r].uploads)
      /\ \A i \in 1..Len(ctx[r].params.sources) :
           ctx[r].params.sources[i].source_type = "user_file"

\* three entries: a history question, the text of the last message, an image
C23_Witness ==
  \E r \in Reqs :
    /\ ProbeSent(r)
    /\ ctx[r].params.hasSources
    /\ Len(ctx[r].params.sources) = 3
    /\ UploadsTagged(r, {"image"}) = 1
    /\ UploadsTagged(r, {"Q", "final"}) = 2

\* C24 (as stated): the search request carries exactly one of the two
\* selectors: selectedChatMode with the requested id for an agent model,
\* selectedAiModel with the mapped id for any other model.
C24_OneSelector ==
  \A r \in Reqs :
    ProbeSent(r) =>
      LET p == ctx[r].params
          model == req[r].body.model
      IN IF isAgentModel(model)
           THEN /\ p.hasSelectedChatMode /\ p.selectedChatMode = model
                /\ ~p.hasSelectedAiModel
           ELSE /\ p.hasSelectedAiModel /\ p.selectedAiModel = mapModelName(model)
                /\ ~p.hasSelectedChatMode

\* C24 (amended): the search request always carries selectedChatMode: for an
\* agent model it is the requested id and selectedAiModel is absent; for any
\* other model it is "custom" and selectedAiModel is the mapped id.
C24_ChatModeAlways ==
  \A r \in Reqs :
    ProbeSent(r) =>
      LET p == ctx[r].params
          model == req[r].body.model
      IN /\ p.hasSelectedChatMode
         /\ IF isAgentModel(model)
              THEN p.selectedChatMode = model /\ ~p.hasSelectedAiModel
              ELSE /\ p.selectedChatMode = "custom"
                   /\ p.hasSelectedAiModel /\ p.selectedAiModel = mapModelName(model)

C24_Witness ==
  \E r \in Reqs :
    /\ ProbeSent(r)
    /\ req[r].body.model = "gpt-4o"
    /\ ctx[r].params.selectedAiModel = "gpt_4o"
    /\ ctx[r].params.selectedChatMode = "custom"

IsKey(x) == \E i \in 1..Len(modelMap) : modelMap[i][1] = x

\* C25 (as stated): every key x of modelMap is mapped back to x, and the
\* model field of a response to a request for x is x.
C25_RoundTripInResponse ==
  /\ \A i \in 1..Len(modelMap) :
       reverseMapOr(mapModelName(modelMap[i][1])) = modelMap[i][1]
  /\ \A r \in Reqs :
       (Completed(r) /\ IsKey(req[r].body.model)) => resp[r].model = req[r].body.model

\* C26 (as stated): a model id that is no key of modelMap is mapped to
\* deepseek_v3, and its response carries the model deepseek-chat.
C26_DefaultOnMiss ==
  \A r \in Reqs :
    LET model == req[r].body.model IN
    ~IsKey(model) =>
      /\ (ProbeSent(r) /\ ~isAgentModel(model)) =>
           ctx[r].params.selectedAiModel = "deepseek_v3"
      /\ Completed(r) => resp[r].model = "deepseek-chat"

\* ================================================== token estimate properties
\* C30: countTokens of the empty string is 0; appending a character to a
\* text content, or a text part or an image part to an array content, never
\* lowers countTokens, and an image part raises it by exactly 85.
C30_TokensMonotone ==
  /\ tContent = StringContent(<<>>) => tTokens = 0
  /\ tAdded # "none" => tTokens >= tBefore
  /\ tAdded = "image" => tTokens = tBefore + ImageTokens

\* a second image part added to a content with a word in it
C30_Witness ==
  /\ tAdded = "image"
  /\ tBefore = ImageTokens + 1
  /\ tTokens = 2 * ImageTokens + 1

\* ========================================================= parser properties
\* the token each frame contributes when only frames whose event name is
\* youChatToken count
ExactTokens(fs) ==
  [i \in 1..Len(fs) |->
     IF FrameEventName(fs[i]) = "youChatToken" THEN FrameToken(fs[i]) ELSE <<>>]

\* C27 (as stated): what both relays extract from a complete body is the
\* tokens of the frames whose event name is exactly youChatToken; frames of
\* any other event name, one that starts with youChatToken included, add
\* nothing.
C27_ExactEventName ==
  /\ rpc = "built" => full = Concat(ExactTokens(frames))
  /\ streamClosed => Concat(ChunkContents(enqueued)) = Concat(ExactTokens(frames))

NotBad(k) == k # "tokBad"

\* C28: a token frame whose data line is not JSON adds nothing and stops
\* nothing: what is extracted from a complete body, and what is relayed to
\* the client, is what the body without those frames yields.
C28_BadJsonSkipped ==
  LET good == BodyOf(SelectSeq(frames, NotBad)) IN
  /\ rpc = "built" => full = collectLines(good, FALSE, <<>>).full
  /\ streamClosed => enqueued = streamLines(good, FALSE, <<KickOff>>).enqueued

\* a frame that is not JSON, then a token frame that is relayed
C28_Witness ==
  /\ streamClosed
  /\ frames = <<"tokBad", "tokHel">>
  /\ ChunkContents(enqueued) = <<Hel>>

\* C29 (as stated): every content chunk has a non-empty content, and the
\* contents relayed from a complete body are, in order and without a gap,
\* the non-empty tokens of its token frames.
C29_CopyOfTokenFragments ==
  /\ \A i \in 1..Len(enqueued) : IsChunk(enqueued[i]) => enqueued[i].content # <<>>
  /\ streamClosed =>
       ChunkContents(enqueued) = SelectSeq(ExactTokens(frames), NonEmpty)

\* ==================================================== response properties
\* C31 (as stated): every response of the gateway carries
\* Access-Control-Allow-Origin: *, and every OPTIONS request is answered with
\* status 200 or 204, no body and no upstream call.
C31_CorsOnEveryResponse ==
  \A r \in Reqs :
    pc[r] = "done" =>
      /\ resp[r].cors
      /\ req[r].method = "OPTIONS" =>
           /\ resp[r].status \in {200, 204}
           /\ resp[r].body = ""
           /\ calls[r] = <<>>

\* ================================================= state-machine properties
\* the lines of a body made of the frames fs, without their line ends
RECURSIVE LinesOf(_)
LinesOf(fs) ==
  IF fs = <<>> THEN <<>>
  ELSE LET ls == FrameLines(Head(fs))
       IN [i \in 1..Len(ls) |-> StripCR(ls[i])] \o LinesOf(Tail(fs))

IsEventLine(l) == StartsWith(l, EventPrefix)
IsDataLine(l) == ~IsEventLine(l) /\ StartsWith(l, DataPrefix)

\* Line i of ls is a data line, and the last event or data line before it is
\* a token-event line: no data line has consumed that event and no later
\* event line has replaced it.
Enabled(ls, i) ==
  /\ IsDataLine(ls[i])
  /\ \E j \in 1..(i - 1) :
       /\ StartsWith(ls[j], TokenEventPrefix)
       /\ \A k \in (j + 1)..(i - 1) : ~IsEventLine(ls[k]) /\ ~IsDataLine(ls[k])

\* what each relay extracts from the data line l when l is the only line
\* after a token-event line
AloneCollected(l) == collectLines(JoinLines(<<LineEvTok, l>>), FALSE, <<>>).full
AloneStreamed(l) == streamLines(JoinLines(<<LineEvTok, l>>), FALSE, <<>>).enqueued

\* C32: in both relays a token-event line enables the extraction from at
\* most one data line: a data line contributes (what it yields on its own
\* after a token event) only when the last event or data line before it is a
\* token-event line. A second data line without a new token-event line, and
\* a data line after an event line of another name that replaced the pending
\* token event, contribute nothing.
C32_EventThenOneDataLine ==
  LET ls == LinesOf(frames) IN
  /\ rpc = "built" =>
       full = Concat([i \in 1..Len(ls) |->
                        IF Enabled(ls, i) THEN AloneCollected(ls[i]) ELSE <<>>])
  /\ streamClosed =>
       SelectSeq(enqueued, IsChunk) =
         Concat([i \in 1..Len(ls) |->
                   IF Enabled(ls, i) THEN AloneStreamed(ls[i]) ELSE <<>>])

\* ==================================================== equivalence of modes
\* C33 (as stated): for every upstream body, in every chunking, the
\* concatenation of delta.content over the chunks of the streaming mode is
\* the message content of the non-streaming mode for the same body.
C33_StreamEqualsCollect ==
  /\ streamClosed =>
       Concat(ChunkContents(enqueued)) = collectLines(body, FALSE, <<>>).full
  /\ rpc = "built" =>
       openAIResp.content =
         Concat(ChunkContents(streamLines(body, FALSE, <<KickOff>>).enqueued))

\* a token event followed by two data lines: one chunk
C32_Witness ==
  /\ streamClosed
  /\ frames = <<"tokHel", "bare">>
  /\ ChunkContents(enqueued) = <<Hel>>

\* ======================================================= sources properties
\* C34 (as stated): the entries of the sources list the search request
\* carries are the sources of the request's uploads in the order in which
\* the uploads were performed.
C34_SourcesInUploadOrder ==
  \A r \in Reqs :
    ProbeSent(r) => ctx[r].params.sources = ctx[r].uploaded

\* ================================================== properties of the variants
IsDone(f) == f = DoneSentinel
ChatEnded == chatPc = "closed" /\ chatFailure = "none"

\* C35 (as stated): in handleStreamingChat, when the upstream stream ends
\* normally the client has received data: [DONE] exactly once, as the last
\* frame, whether or not the upstream sent data: [DONE] itself.
C35_DoneOnceAtEnd ==
  ChatEnded =>
    /\ Len(SelectSeq(written, IsDone)) = 1
    /\ written[Len(written)] = DoneSentinel

\* C36: in handleStreamingChat writer.close() is called exactly once in
\* every execution, whatever the fetch and the reads do: never twice, and
\* once in the end. It closes the stream unless the client has cancelled it,
\* and when the try block has thrown, the error frame is the last frame
\* written before the close.
C36_ClosedOnceAfterErrorFrame ==
  /\ [](closeCalls <= 1)
  /\ [](closeCalls = 1 <=> chatPc \in {"closed", "rejected"})
  /\ [](chatPc = "rejected" => chatCancelled)
  /\ []((chatPc = "closed" /\ chatFailure # "none") =>
          (written # <<>> /\ written[Len(written)] = ErrorChunk
             /\ Len(SelectSeq(written, LAMBDA f : f = ErrorChunk)) = 1))
  /\ <>(closeCalls = 1)

\* a read fails after a chunk has been written: error frame, then close
C36_Witness ==
  /\ chatPc = "closed"
  /\ chatFailure = "read"
  /\ written = <<ChatChunk(Hel), ErrorChunk>>

\* C37 (as stated): in both chunk-simulating variants the contents of the
\* chunks, concatenated in order, are the content extracted from the
\* upstream response, and the chunks are followed by one frame with
\* finish_reason "stop" and then data: [DONE].
C37_ChunksRebuildContent ==
  simPc = "closed" =>
    LET n == Len(simEnqueued) IN
    /\ Concat(ChunkContents(simEnqueued)) = simContent
    /\ n >= 2
    /\ simEnqueued[n] = DoneSentinel
    /\ simEnqueued[n - 1] = StopFrame
    /\ \A i \in 1..(n - 2) : simEnqueued[i].kind = "chunk"

\* the frames of the lines of the upstream body, one per line that is not
\* blank
FramePerLine(fs) ==
  LET ks == SelectSeq(fs, LAMBDA k : k # "blank")
  IN [i \in 1..Len(ks) |->
        IF ks[i] = "data" THEN PassedOn(UpLineData) ELSE Wrapped(UpLineText)]

\* C38 (as stated): in handleStreamResponse of main.js the frames emitted
\* for a whole upstream body are one per upstream line, however the body is
\* split into network chunks.
C38_FramePerUpstreamLine ==
  upPos = Len(upBody) => trEnqueued = FramePerLine(upFrames)


\* a JavaScript string
IsText(x) == x \in Seq(STRING)

\* C39: throughout the history fold an open answer comes with an open
\* question (hasAnswer => hasQuestion), so the assistant branch that appends
\* to an answer without a question is never taken, and every turn pushed to
\* chatHistory has exactly the two properties Question and Answer, each a
\* string, possibly empty.
C39_AnswerOnlyWithQuestion ==
  /\ hLoop.hasAnswer => hLoop.hasQuestion
  /\ (hpc = "loop" /\ hI < Len(hMessages) - 1 /\ hMessages[hI + 1].role = "assistant")
       => (hLoop.hasQuestion \/ ~hLoop.hasAnswer)
  /\ \A i \in 1..Len(History) :
       /\ DOMAIN History[i] = {"Question", "Answer"}
       /\ IsText(History[i].Question)
       /\ IsText(History[i].Answer)

\* two assistant messages first: the turn opened by the first has the empty
\* question, and the second finds the question open
C39_Witness ==
  /\ Built
  /\ hGiven = <<Assistant(TextA), Assistant(TextB), User(TextA)>>
  /\ History = <<QA(<<>>, TextB)>>

====
